---- MODULE Spec2Model ----
(***************************************************************************)
(* A model of the relayx transaction relayer: the request store            *)
(* (src/src/storage.rs), the two intake handlers and the background        *)
(* monitor (src/src/rpc.rs), and the chain they talk to.                   *)
(*                                                                         *)
(* The intake handlers run on the HTTP server's threads and the monitor on *)
(* the tokio runtime, all over one shared RocksDB handle.  The store's     *)
(* update_* operations are a get followed by a put, so each is modelled as *)
(* two steps (read into a local copy, write the copy back) that other      *)
(* threads may interleave with.  Every chain RPC is a step of its own.     *)
(***************************************************************************)
EXTENDS Integers, Sequences, FiniteSets, TLC

(***************************************************************************)
(* Bounds of the model.                                                    *)
(***************************************************************************)
MaxRequests == 2        \* request ids (uuids) that may ever be generated
MaxBroadcasts == 2      \* transaction hashes the Submitter may ever return
NumChains == 1          \* supported chains (chains with an RPC URL)
NumHandlers == 1        \* intake calls that may be in progress at once
MaxBatch == 2           \* transactions of one multichain call
MaxStoreFailures == 1   \* RocksDB operations that may fail
MaxCrashes == 1         \* process crashes followed by a restart

\* get_requests(Some(1000)) in the monitor.  The source's limit is 1000; the
\* model scales it to 1 so that a store of MaxRequests records can exceed it,
\* as a store of 1001 records exceeds 1000.
SnapshotLimit == 1

Ids == 1..MaxRequests         \* uuids; the order of Ids is the key order
Hashes == 1..MaxBroadcasts
Chains == 1..NumChains
Handlers == 1..NumHandlers
NoHash == 0                   \* transaction_hash: None
BadChain == 0                 \* a chain id that fails validation

VARIABLES
    store,        \* request:{id} -> record, Absent when the key is not there
    resubs,       \* the resubmission:{id}:{chain}:{hash} keys
    used,         \* the uuids generated so far
    txs,          \* the chain: hash -> the transaction broadcast under it
    mined,        \* the chain: chain -> the relayer's transaction count
    h,            \* the intake handlers' positions and locals
    mon,          \* the monitor's position and locals
    storeFails,   \* RocksDB failures so far
    crashes,      \* crashes so far
    interrupted,  \* ids whose intake a crash cut short before the hash was stored
    stub,         \* RELAYX_STUB_MODE
    gas,          \* one request's gas fields, its writers and its broadcasts
    call          \* one intake call taken by itself: its input and what it did

vars == <<store, resubs, used, txs, mined, h, mon, storeFails, crashes,
          interrupted, stub, gas, call>>

\* The variables of the service as a whole.
serviceVars == <<store, resubs, used, txs, mined, h, mon, storeFails, crashes,
                 interrupted, stub>>

(***************************************************************************)
(* The request record (types.rs RelayerRequest), the fields the lifecycle  *)
(* reads and writes.                                                       *)
(***************************************************************************)
Absent == [status |-> "Absent", hash |-> NoHash, err |-> "none", chain |-> BadChain]

Terminal == {"Completed", "Failed"}

\* process_send_transaction's RelayerRequest literal: Pending, no hash.
NewRequest(chain) ==
    [status |-> "Pending", hash |-> NoHash, err |-> "none", chain |-> chain]

\* Storage::update_request_status on the record it read: the whole record is
\* written back with the new status and error message; nothing for a missing key.
update_request_status(rec, status, error_message) ==
    IF rec.status = "Absent" THEN rec
    ELSE [rec EXCEPT !.status = status, !.err = error_message]

\* Storage::update_request_tx_hash on the record it read.
update_request_tx_hash(rec, tx_hash) ==
    IF rec.status = "Absent" THEN rec
    ELSE [rec EXCEPT !.hash = tx_hash]

\* Storage::get_requests(limit): the first `limit` records in key order.
get_requests(limit) ==
    LET present == {i \in Ids : store[i].status # "Absent"}
    IN  {i \in present : Cardinality({j \in present : j < i}) < limit}

RECURSIVE InOrder(_)
InOrder(S) ==
    IF S = {} THEN <<>>
    ELSE LET m == CHOOSE x \in S : \A y \in S : x <= y
         IN  <<m>> \o InOrder(S \ {m})

\* A filter that lets every record with a hash through.
Eligible_anyStatus(req) == req.hash # NoHash

\* The monitor's filter on a snapshot record: Pending or Processing, with a hash.
Eligible(req) ==
    /\ req.status \in {"Pending", "Processing"}
    /\ req.hash # NoHash

(***************************************************************************)
(* The chain.                                                              *)
(***************************************************************************)
NoTx == [id |-> 0, chain |-> BadChain, nonce |-> 0, st |-> "free"]

FreeHashes == {x \in Hashes : txs[x].st = "free"}
NewHash == CHOOSE x \in FreeHashes : \A y \in FreeHashes : x <= y

\* send_relay_transaction's nonce: get_transaction_count(relayer) at latest.
get_transaction_count(chain) == mined[chain]

\* provider.send_transaction returning Ok(hash): the transaction is in the pool.
Broadcast(hash, id, chain, nonce) ==
    /\ txs' = [txs EXCEPT ![hash] =
                 [id |-> id, chain |-> chain, nonce |-> nonce,
                  st |-> IF stub THEN "stub" ELSE "pending"]]
    /\ interrupted' = interrupted \ {id}

\* A block: one pending transaction with the account's next nonce is executed,
\* and the pending ones it shares the nonce with can no longer be.
Mine ==
    \E x \in Hashes, outcome \in {"success", "reverted"} :
        /\ txs[x].st = "pending"
        /\ txs[x].nonce = mined[txs[x].chain]
        /\ txs' = [y \in Hashes |->
                     IF y = x THEN [txs[y] EXCEPT !.st = outcome]
                     ELSE IF /\ txs[y].st = "pending"
                             /\ txs[y].chain = txs[x].chain
                             /\ txs[y].nonce = txs[x].nonce
                          THEN [txs[y] EXCEPT !.st = "dropped"]
                          ELSE txs[y]]
        /\ mined' = [mined EXCEPT ![txs[x].chain] = @ + 1]
        /\ UNCHANGED <<store, resubs, used, h, mon, storeFails, crashes,
                       interrupted, stub, gas, call>>

(***************************************************************************)
(* Intake validation.  A call's input is reduced to what the checks look   *)
(* at; the checks are made in the order of the code.                       *)
(***************************************************************************)
Tokens == {"empty", "zero", "listed", "unlisted", "malformed"}
PayTypes == {"native", "erc20", "sponsored", "other"}

SingleInputs ==
    [fieldsOk : BOOLEAN,               \* to, data, chainId, payment type given and parseable
     token : Tokens,                   \* capabilities.payment.token
     chain : Chains \cup {BadChain},   \* BadChain: no RPC URL configured
     auth : {"empty", "valid", "invalid"},
     sim : {"ok", "reject"},           \* what simulate_transaction meets on the chain
     simDisabled : BOOLEAN,            \* cfg.is_simulation_disabled()
     payType : PayTypes,
     balance : {"enough", "short", "error"}]

\* process_send_transaction up to the match on the payment type.
ValidateSingle(inp, stubMode) ==
    IF ~inp.fieldsOk \/ inp.token = "empty" THEN "InvalidParams"
    ELSE IF inp.chain = BadChain THEN "InvalidParams"
    ELSE IF inp.auth = "invalid" THEN "InvalidSignature"
    ELSE IF inp.sim = "reject" /\ ~inp.simDisabled /\ ~stubMode
         THEN "SimulationFailed"
    ELSE CASE inp.payType = "native" ->
                IF inp.token # "zero" THEN "InvalidParams"
                ELSE IF inp.balance = "error" THEN "InternalError"
                ELSE IF inp.balance = "short" THEN "InvalidParams"
                ELSE "ok"
           [] inp.payType = "erc20" ->
                IF inp.token = "malformed" THEN "InvalidParams"
                ELSE IF inp.token # "listed" THEN "UnsupportedPaymentToken"
                ELSE "ok"
           [] inp.payType = "sponsored" -> "ok"
           [] OTHER -> "UnsupportedCapability"

MultiTxs ==
    [fieldsOk : BOOLEAN,               \* to, data, chainId given and parseable
     chain : Chains \cup {BadChain},   \* BadChain: no RPC URL configured
     sim : {"ok", "reject"}]           \* what simulate_transaction meets on the chain

RECURSIVE SeqsUpTo(_, _)
SeqsUpTo(S, n) ==
    IF n = 0 THEN {<<>>}
    ELSE LET shorter == SeqsUpTo(S, n - 1)
         IN  shorter \cup {Append(q, x) : q \in {r \in shorter : Len(r) = n - 1}, x \in S}

MultiInputs ==
    [transactions : SeqsUpTo(MultiTxs, MaxBatch),
     payChainOk : BOOLEAN,             \* paymentChainId given, parseable and supported
     simDisabled : BOOLEAN,            \* cfg.is_simulation_disabled()
     payType : PayTypes,
     token : Tokens]

\* A validation that looks at the payment before the transaction list.
ValidateMulti_paymentFirst(inp) ==
    IF inp.payType \notin {"native", "erc20", "sponsored"} THEN "UnsupportedCapability"
    ELSE IF inp.transactions = <<>> \/ ~inp.payChainOk THEN "InvalidParams"
    ELSE "ok"

\* process_send_transaction_multichain before its loop.
ValidateMulti(inp) ==
    IF inp.transactions = <<>> THEN "InvalidParams"
    ELSE IF ~inp.payChainOk THEN "InvalidParams"
    ELSE CASE inp.payType = "native" ->
                IF inp.token # "zero" THEN "InvalidParams" ELSE "ok"
           [] inp.payType = "erc20" ->
                IF inp.token \in {"malformed", "empty"} THEN "InvalidParams" ELSE "ok"
           [] inp.payType = "sponsored" -> "ok"
           [] OTHER -> "UnsupportedCapability"

\* The loop's checks on one transaction: the chain to use, or BadChain when the
\* transaction is turned down with InvalidParams.
TxCheck(tx) == IF tx.fieldsOk /\ tx.chain \in Chains THEN tx.chain ELSE BadChain

\* What a call's validation leaves for the rest of the handler: the result so
\* far and the transactions to take up.
SingleOutcomes(stubMode) ==
    {[res |-> ValidateSingle(i, stubMode),
      todo |-> IF ValidateSingle(i, stubMode) = "ok" THEN <<i.chain>> ELSE <<>>] :
        i \in SingleInputs}

SingleOutcomesReal == SingleOutcomes(FALSE)
SingleOutcomesStub == SingleOutcomes(TRUE)

MultiOutcomes ==
    {[res |-> ValidateMulti(i),
      todo |-> IF ValidateMulti(i) = "ok"
               THEN [k \in 1..Len(i.transactions) |-> TxCheck(i.transactions[k])]
               ELSE <<>>] :
        i \in MultiInputs}

(***************************************************************************)
(* The intake handlers.                                                    *)
(***************************************************************************)
HIdle ==
    [pc |-> "idle", kind |-> "none", todo |-> <<>>, id |-> 0,
     hash |-> NoHash, buf |-> Absent, res |-> "none", made |-> <<>>,
     sent |-> 0, pf |-> FALSE]

MIdle == [pc |-> "sleep", queue |-> <<>>, hash |-> NoHash, buf |-> Absent]

RECURSIVE Reserved(_)
Reserved(P) ==
    IF P = {} THEN 0
    ELSE LET q == CHOOSE x \in P : TRUE
         IN  Len(h[q].todo) + Reserved(P \ {q})

\* A call is taken up only while the model has uuids left for its records.
IdsLeft(n) == Cardinality(Ids \ used) >= n + Reserved(Handlers)

Begin(p, kind, o) ==
    /\ h[p].pc = "idle"
    /\ IdsLeft(Len(o.todo))
    /\ h' = [h EXCEPT ![p] =
               [HIdle EXCEPT !.kind = kind, !.todo = o.todo,
                             !.pc = IF o.res = "ok" THEN "persist" ELSE "done",
                             !.res = IF o.res = "ok" THEN "none" ELSE o.res]]
    /\ UNCHANGED <<store, resubs, used, txs, mined, mon, storeFails, crashes,
                   interrupted, stub, gas, call>>

\* The response is sent; the handler is free for the next call.
Return(p) ==
    /\ h[p].pc = "done"
    /\ h' = [h EXCEPT ![p] = HIdle]
    /\ UNCHANGED <<store, resubs, used, txs, mined, mon, storeFails, crashes,
                   interrupted, stub, gas, call>>

\* relayer_sendTransaction arrives and is validated.
StartSingle(p) ==
    \E o \in (IF stub THEN SingleOutcomesStub ELSE SingleOutcomesReal) :
        Begin(p, "single", o)

\* relayer_sendTransactionMultichain arrives and is validated.
StartMulti(p) ==
    \E o \in MultiOutcomes : Begin(p, "multi", o)

\* The handler returns: its locals are gone, what the call did stays on view.
Done(rec, res) ==
    [rec EXCEPT !.pc = "done", !.res = res, !.todo = <<>>, !.id = 0,
                !.hash = NoHash, !.buf = Absent]

\* The end of one transaction's turn: the call returns after its last one, the
\* multichain loop goes on to the next.
Advance(rec) ==
    IF Len(rec.todo) = 1 THEN Done(rec, "ok")
    ELSE [rec EXCEPT !.pc = "persist", !.todo = Tail(@), !.id = 0,
                     !.hash = NoHash, !.buf = Absent]

\* A handler that logs the failed create_request and carries on to the Submitter.
AfterCreateFailed_carriesOn(rec) == [rec EXCEPT !.pc = "send"]

\* Where the handler goes when create_request fails: it returns InternalError.
AfterCreateFailed(rec) == Done(rec, "InternalError")

\* Where the handler goes when send_relay_transaction fails.
AfterSendFailed(rec) ==
    [rec EXCEPT !.pc = "failR", !.pf = TRUE]

\* Where the handler goes when its write of Failed is over: the single-chain
\* call returns InternalError, the multichain loop goes on.
AfterFailedWritten(rec) ==
    IF rec.kind = "single" THEN Done(rec, "InternalError") ELSE Advance(rec)

\* The loop's checks on the next transaction, a fresh uuid, create_request.
Persist(p) ==
    /\ h[p].pc = "persist"
    /\ LET chain == Head(h[p].todo) IN
       IF chain = BadChain
       THEN /\ h' = [h EXCEPT ![p] = Done(@, "InvalidParams")]
            /\ UNCHANGED <<store, used, storeFails>>
       ELSE \E id \in Ids \ used :
              /\ used' = used \cup {id}
              /\ \/ /\ store' = [store EXCEPT ![id] = NewRequest(chain)]
                    /\ h' = [h EXCEPT ![p] =
                               [@ EXCEPT !.pc = "send", !.id = id,
                                         !.made = Append(@, id)]]
                    /\ UNCHANGED storeFails
                 \/ /\ storeFails < MaxStoreFailures
                    /\ storeFails' = storeFails + 1
                    /\ h' = [h EXCEPT ![p] = AfterCreateFailed([@ EXCEPT !.id = id])]
                    /\ UNCHANGED store
    /\ UNCHANGED <<resubs, txs, mined, mon, crashes, interrupted, stub, gas, call>>

\* send_relay_transaction.  In stub mode it returns a made-up hash at once.
\* Otherwise it reads the relayer's transaction count and sends the
\* transaction signed with it: Ok(hash), or an error (no key, no RPC URL, the
\* RPC call, the node's refusal).  The count and the send are taken as one
\* step: a count that moved in between makes the node refuse, which is the
\* step's error.
HSend(p) ==
    /\ h[p].pc = "send"
    /\ \/ /\ FreeHashes # {}
          /\ Broadcast(NewHash, h[p].id, Head(h[p].todo),
                       get_transaction_count(Head(h[p].todo)))
          /\ h' = [h EXCEPT ![p] = [@ EXCEPT !.pc = "hashR", !.hash = NewHash,
                                              !.sent = @ + 1]]
       \/ /\ ~stub
          /\ h' = [h EXCEPT ![p] = AfterSendFailed(@)]
          /\ UNCHANGED <<txs, interrupted>>
    /\ UNCHANGED <<store, resubs, used, mined, mon, storeFails, crashes, stub, gas, call>>

\* The get_request of an update_request_* call.
HRead(p) ==
    /\ h[p].pc \in {"hashR", "statR", "compR", "failR"}
    /\ h' = [h EXCEPT ![p] =
               [@ EXCEPT !.buf = store[h[p].id],
                         !.pc = CASE h[p].pc = "hashR" -> "hashW"
                                  [] h[p].pc = "statR" -> "statW"
                                  [] h[p].pc = "compR" -> "compW"
                                  [] h[p].pc = "failR" -> "failW"]]
    /\ UNCHANGED <<store, resubs, used, txs, mined, mon, storeFails, crashes,
                   interrupted, stub, gas, call>>

\* What the handler's update_request_* call writes back.
HUpdated(rec) ==
    CASE rec.pc = "hashW" -> update_request_tx_hash(rec.buf, rec.hash)
      [] rec.pc = "statW" -> update_request_status(rec.buf, "Processing", "none")
      [] rec.pc = "compW" -> update_request_status(rec.buf, "Completed", "none")
      [] rec.pc = "failW" -> update_request_status(rec.buf, "Failed", "send")

\* Where the handler goes after an update_request_* call, failed or not.
HAfterWrite(rec) ==
    CASE rec.pc = "hashW" -> [rec EXCEPT !.pc = "statR", !.buf = Absent]
      [] rec.pc = "statW" -> IF stub THEN [rec EXCEPT !.pc = "compR", !.buf = Absent]
                             ELSE Advance(rec)
      [] rec.pc = "compW" -> Advance(rec)
      [] rec.pc = "failW" -> AfterFailedWritten(rec)

\* The store_request of an update_request_* call; a RocksDB error is logged
\* and the handler goes on.
HWrite(p) ==
    /\ h[p].pc \in {"hashW", "statW", "compW", "failW"}
    /\ \/ /\ store' = [store EXCEPT ![h[p].id] = HUpdated(h[p])]
          /\ h' = [h EXCEPT ![p] = HAfterWrite(@)]
          /\ UNCHANGED storeFails
       \/ /\ storeFails < MaxStoreFailures
          /\ storeFails' = storeFails + 1
          /\ h' = [h EXCEPT ![p] = HAfterWrite([@ EXCEPT !.pf = TRUE])]
          /\ UNCHANGED store
    /\ UNCHANGED <<resubs, used, txs, mined, mon, crashes, interrupted, stub, gas, call>>

(***************************************************************************)
(* The monitor.                                                            *)
(***************************************************************************)
\* One snapshot record, as the loop uses it.
Req(i) == [id |-> i, hash |-> store[i].hash, chain |-> store[i].chain]

\* The records of a snapshot the loop does anything for, in key order.
Snapshot ==
    LET ids == InOrder({i \in get_requests(SnapshotLimit) : Eligible(store[i])})
    IN  [k \in 1..Len(ids) |-> Req(ids[k])]

\* The loop goes on to the snapshot's next record, or to sleep.
MAdvance(m) ==
    [MIdle EXCEPT !.queue = Tail(m.queue),
                  !.pc = IF Len(m.queue) = 1 THEN "sleep" ELSE "receipt"]

\* The sleep is over: storage.get_requests(Some(1000)).
Tick ==
    /\ mon.pc = "sleep"
    /\ mon' = [MIdle EXCEPT !.queue = Snapshot,
                            !.pc = IF Snapshot = <<>> THEN "sleep" ELSE "receipt"]
    /\ UNCHANGED <<store, resubs, used, txs, mined, h, storeFails, crashes,
                   interrupted, stub, gas, call>>

\* provider.get_transaction_receipt(hash) as fetch_and_update_receipt sees it.
get_transaction_receipt(hash) ==
    IF txs[hash].st \in {"success", "reverted"}
    THEN {txs[hash].st, "error"}
    ELSE {"none", "error"}

\* fetch_and_update_receipt up to its store call; None sends the loop on to
\* the resubmission.
MReceipt ==
    /\ mon.pc = "receipt"
    /\ \/ /\ stub
          /\ mon' = [mon EXCEPT !.pc = "compR"]
       \/ /\ ~stub
          /\ \E r \in get_transaction_receipt(Head(mon.queue).hash) :
               mon' = [mon EXCEPT !.pc = CASE r = "success" -> "compR"
                                           [] r = "reverted" -> "revR"
                                           [] OTHER -> "send"]
    /\ UNCHANGED <<store, resubs, used, txs, mined, h, storeFails, crashes,
                   interrupted, stub, gas, call>>

\* The resubmission's send_relay_transaction (after fetch_gas_price, which
\* always answers for a supported chain).
MSend ==
    /\ mon.pc = "send"
    /\ \/ /\ FreeHashes # {}
          /\ Broadcast(NewHash, Head(mon.queue).id, Head(mon.queue).chain,
                       get_transaction_count(Head(mon.queue).chain))
          /\ mon' = [mon EXCEPT !.pc = "hashR", !.hash = NewHash]
       \/ /\ mon' = [mon EXCEPT !.pc = "sfailR"]
          /\ UNCHANGED <<txs, interrupted>>
    /\ UNCHANGED <<store, resubs, used, mined, h, storeFails, crashes, stub, gas, call>>

\* The get_request of the monitor's update_request_* call.
MRead ==
    /\ mon.pc \in {"compR", "revR", "sfailR", "hashR", "statR"}
    /\ mon' = [mon EXCEPT !.buf = store[Head(mon.queue).id],
                          !.pc = CASE mon.pc = "compR" -> "compW"
                                   [] mon.pc = "revR" -> "revW"
                                   [] mon.pc = "sfailR" -> "sfailW"
                                   [] mon.pc = "hashR" -> "hashW"
                                   [] mon.pc = "statR" -> "statW"]
    /\ UNCHANGED <<store, resubs, used, txs, mined, h, storeFails, crashes,
                   interrupted, stub, gas, call>>

\* A monitor that marks a request with a success receipt Processing.
MUpdated_keepsProcessing(m) ==
    update_request_status(m.buf, IF m.pc = "revW" THEN "Failed" ELSE "Processing",
                          IF m.pc = "revW" THEN "revert" ELSE "none")

\* What the monitor's update_request_* call writes back.
MUpdated(m) ==
    CASE m.pc = "compW" -> update_request_status(m.buf, "Completed", "none")
      [] m.pc = "revW" -> update_request_status(m.buf, "Failed", "revert")
      [] m.pc = "sfailW" -> update_request_status(m.buf, "Failed", "send")
      [] m.pc = "hashW" -> update_request_tx_hash(m.buf, m.hash)
      [] m.pc = "statW" -> update_request_status(m.buf, "Processing", "none")

\* Where the monitor goes after an update_request_* call, failed or not.
MAfterWrite(m) ==
    IF m.pc = "hashW" THEN [m EXCEPT !.pc = "resub", !.buf = Absent]
    ELSE MAdvance(m)

\* The store_request of the monitor's update_request_* call; its result is dropped.
MWrite ==
    /\ mon.pc \in {"compW", "revW", "sfailW", "hashW", "statW"}
    /\ \/ /\ store' = [store EXCEPT ![Head(mon.queue).id] = MUpdated(mon)]
          /\ UNCHANGED storeFails
       \/ /\ storeFails < MaxStoreFailures
          /\ storeFails' = storeFails + 1
          /\ UNCHANGED store
    /\ mon' = MAfterWrite(mon)
    /\ UNCHANGED <<resubs, used, txs, mined, h, crashes, interrupted, stub, gas, call>>

\* storage.add_resubmission: one put under the composite key.
MResub ==
    /\ mon.pc = "resub"
    /\ \/ /\ resubs' = resubs \cup
                 {<<Head(mon.queue).id, Head(mon.queue).chain, mon.hash>>}
          /\ UNCHANGED storeFails
       \/ /\ storeFails < MaxStoreFailures
          /\ storeFails' = storeFails + 1
          /\ UNCHANGED resubs
    /\ mon' = [mon EXCEPT !.pc = "statR"]
    /\ UNCHANGED <<store, used, txs, mined, h, crashes, interrupted, stub, gas, call>>

(***************************************************************************)
(* One request's gas fields.  The record here carries gas_limit, gas_price *)
(* and nonce next to status and hash.  Its writers are the intake handler, *)
(* the monitor and a caller of Storage::update_request_nonce; each update  *)
(* is a get followed by a put, as above.                                   *)
(***************************************************************************)
MaxPriceSteps == 2      \* chain gas prices told apart
MaxGasSends == 3        \* broadcasts of the request: the first and the resubmissions

\* What eth_gasPrice may answer, in wei.
Prices == {10 * k : k \in 1..MaxPriceSteps}

\* The gas limit when there is no estimate (rpc.rs: 150_000).
DefaultGasLimit == 150000

\* What simulate_transaction may return: an estimate, or the default.
GasLimits == {21000, DefaultGasLimit}

\* The monitor's bump: bump_gas_price_hex(&price_hex, 20).
BumpPercent == 20

\* bump_gas_price_hex on a price that parses: v + v * percent / 100 in u128,
\* the division rounding down.
bump_gas_price_hex(v, percent) == v + ((v * percent) \div 100)

Writers == {"intake", "monitor", "api"}

GAbsent ==
    [status |-> "Absent", hash |-> NoHash, err |-> "none", gas_limit |-> 0,
     gas_price |-> 0, nonce |-> 0]

\* The RelayerRequest literal of intake, with the gas fields.
GNewRequest(gas_limit, gas_price) ==
    [status |-> "Pending", hash |-> NoHash, err |-> "none",
     gas_limit |-> gas_limit, gas_price |-> gas_price, nonce |-> 0]

\* Storage::update_request_nonce on the record it read.
update_request_nonce(rec, nonce) ==
    IF rec.status = "Absent" THEN rec
    ELSE [rec EXCEPT !.nonce = nonce]

\* A store call a writer has still to make.
GOp(op, hash, status, err) ==
    [op |-> op, hash |-> hash, status |-> status, err |-> err]

\* What the put of a store call writes, given the record its get returned.
GApply(o, rec) ==
    CASE o.op = "hash" -> update_request_tx_hash(rec, o.hash)
      [] o.op = "status" -> update_request_status(rec, o.status, o.err)
      [] o.op = "nonce" -> update_request_nonce(rec, o.hash)

GIdle == [pc |-> "idle", seq |-> <<>>, buf |-> GAbsent]

GasOff ==
    [rec |-> GAbsent, price |-> 0, sent |-> <<>>, resubs |-> {},
     ireq |-> GAbsent, req |-> GAbsent, w |-> [x \in Writers |-> GIdle]]

\* A monitor that resubmits with the default gas limit.
ResendGasLimit_default(req) == DefaultGasLimit

\* The gas limit the monitor gives send_relay_transaction: req.gas_limit.
ResendGasLimit(req) == req.gas_limit

\* One broadcast: what it was sent with, and what the store and the chain
\* held at that moment.
GSent(gas_limit, gas_price) ==
    [gas_limit |-> gas_limit, gas_price |-> gas_price,
     stored_limit |-> gas.rec.gas_limit, stored_price |-> gas.rec.gas_price,
     current |-> gas.price]

\* The store calls after a broadcast that returned the hash.
AfterSendOk(hash, resub) ==
    <<GOp("hash", hash, "none", "none")>>
    \o (IF resub THEN <<GOp("resub", hash, "none", "none")>> ELSE <<>>)
    \o <<GOp("status", NoHash, "Processing", "none")>>

\* The store call after a broadcast that failed.
AfterSendErr == <<GOp("status", NoHash, "Failed", "send")>>

\* The chain's gas price moves.
GPrice ==
    /\ \E p \in Prices \ {gas.price} : gas' = [gas EXCEPT !.price = p]
    /\ UNCHANGED <<serviceVars, call>>

\* Intake up to create_request: fetch_gas_price, simulate_transaction, the
\* record literal, the put.
GIntake ==
    /\ gas.rec.status = "Absent"
    /\ gas.w["intake"].pc = "idle"
    /\ \E g \in GasLimits :
         gas' = [gas EXCEPT !.rec = GNewRequest(g, gas.price),
                            !.ireq = GNewRequest(g, gas.price),
                            !.w["intake"].pc = "send"]
    /\ UNCHANGED <<serviceVars, call>>

\* Intake's send_relay_transaction(.., gas_limit, &gas_price, ..).
GISend ==
    /\ gas.w["intake"].pc = "send"
    /\ \/ gas' = [gas EXCEPT
                    !.sent = Append(@, GSent(gas.ireq.gas_limit, gas.ireq.gas_price)),
                    !.w["intake"] = [GIdle EXCEPT !.pc = "read",
                                        !.seq = AfterSendOk(Len(gas.sent) + 1, FALSE)]]
       \/ gas' = [gas EXCEPT
                    !.w["intake"] = [GIdle EXCEPT !.pc = "read", !.seq = AfterSendErr]]
    /\ UNCHANGED <<serviceVars, call>>

\* The monitor's snapshot holds the record and the filter lets it through.
GTick ==
    /\ gas.w["monitor"].pc = "idle"
    /\ Eligible(gas.rec)
    /\ gas' = [gas EXCEPT !.req = gas.rec, !.w["monitor"].pc = "receipt"]
    /\ UNCHANGED <<serviceVars, call>>

\* fetch_and_update_receipt: a success receipt, or None.
GReceipt ==
    /\ gas.w["monitor"].pc = "receipt"
    /\ \/ gas' = [gas EXCEPT
                    !.w["monitor"] =
                        [GIdle EXCEPT !.pc = "read",
                             !.seq = <<GOp("status", NoHash, "Completed", "none")>>]]
       \/ gas' = [gas EXCEPT !.w["monitor"].pc = "resend"]
    /\ UNCHANGED <<serviceVars, call>>

\* The resubmission: fetch_gas_price, bump_gas_price_hex(.., 20),
\* send_relay_transaction(.., req.gas_limit, &bumped, ..).
GResend ==
    /\ gas.w["monitor"].pc = "resend"
    /\ \/ /\ Len(gas.sent) < MaxGasSends
          /\ gas' = [gas EXCEPT
                       !.sent = Append(@, GSent(ResendGasLimit(gas.req),
                                                bump_gas_price_hex(gas.price, BumpPercent))),
                       !.w["monitor"] = [GIdle EXCEPT !.pc = "read",
                                           !.seq = AfterSendOk(Len(gas.sent) + 1, TRUE)]]
       \/ gas' = [gas EXCEPT
                    !.w["monitor"] = [GIdle EXCEPT !.pc = "read", !.seq = AfterSendErr]]
    /\ UNCHANGED <<serviceVars, call>>

\* A call of Storage::update_request_nonce (the store's API has it; the
\* handlers of rpc.rs never call it).
GNonce ==
    /\ gas.w["api"].pc = "idle"
    /\ gas.rec.status # "Absent"
    /\ gas.rec.nonce = 0
    /\ gas' = [gas EXCEPT
                 !.w["api"] = [GIdle EXCEPT !.pc = "read",
                                  !.seq = <<GOp("nonce", 1, "none", "none")>>]]
    /\ UNCHANGED <<serviceVars, call>>

\* Where a writer is after a store call.
GNextCall(wr) ==
    [GIdle EXCEPT !.seq = Tail(wr.seq),
                  !.pc = IF Len(wr.seq) = 1 THEN "idle" ELSE "read"]

\* The get of an update_request_* call; add_resubmission is a put alone.
GRead(x) ==
    /\ gas.w[x].pc = "read"
    /\ IF Head(gas.w[x].seq).op = "resub"
       THEN gas' = [gas EXCEPT !.resubs = @ \cup {Head(gas.w[x].seq).hash},
                               !.w[x] = GNextCall(@)]
       ELSE gas' = [gas EXCEPT !.w[x].buf = gas.rec, !.w[x].pc = "write"]
    /\ UNCHANGED <<serviceVars, call>>

\* The put of an update_request_* call.
GWrite(x) ==
    /\ gas.w[x].pc = "write"
    /\ gas' = [gas EXCEPT !.rec = GApply(Head(gas.w[x].seq), gas.w[x].buf),
                          !.w[x] = GNextCall(@)]
    /\ UNCHANGED <<serviceVars, call>>

GStore == \E x \in Writers : GRead(x) \/ GWrite(x)

(***************************************************************************)
(* One intake call taken by itself.                                        *)
(***************************************************************************)
CallOff == [kind |-> "none"]

\* simulate_transaction's answer when it is Err.
SimErr == 0

\* The estimate provider.estimate_gas gives in the model.
GasEstimate == 21000

\* simulate_transaction: 150_000 when simulation is disabled or in stub mode,
\* else the estimate, or Err (selector mismatch, eth_call revert, estimate
\* failure).
simulate_transaction(sim, simDisabled, stubMode) ==
    IF simDisabled \/ stubMode THEN DefaultGasLimit
    ELSE IF sim = "ok" THEN GasEstimate
    ELSE SimErr

\* The multichain loop's gas limit for a transaction: the match on
\* simulate_transaction's result.
MultiGasLimit(tx, simDisabled) ==
    IF simulate_transaction(tx.sim, simDisabled, FALSE) # SimErr
    THEN simulate_transaction(tx.sim, simDisabled, FALSE)
    ELSE DefaultGasLimit

\* The record of a transaction of the batch when its turn is over: created
\* Pending, then hash and Processing after Ok(hash), Failed after Err.
CallRecord(chain, sendOk) ==
    IF sendOk
    THEN update_request_status(update_request_tx_hash(NewRequest(chain), 1),
                               "Processing", "none")
    ELSE update_request_status(NewRequest(chain), "Failed", "send")

\* The loop after a transaction's turn: the next one, or Ok(results).
CallNextTx(c) ==
    IF c.k = Len(c.inp.transactions) THEN [c EXCEPT !.res = "ok"]
    ELSE [c EXCEPT !.k = @ + 1]

\* A loop that returns InternalError when a broadcast fails, as the
\* single-chain handler does.
CallAfterSendErr_returns(c) == [c EXCEPT !.res = "InternalError"]

\* The loop after a failed broadcast: it goes on.
CallAfterSendErr(c) == CallNextTx(c)

\* process_send_transaction_multichain before its loop.
CallValidate ==
    /\ call.kind = "multi"
    /\ call.res = "none"
    /\ call.k = 0
    /\ call' = IF ValidateMulti(call.inp) = "ok"
               THEN [call EXCEPT !.k = 1]
               ELSE [call EXCEPT !.res = ValidateMulti(call.inp)]
    /\ UNCHANGED <<serviceVars, gas>>

\* The loop's checks turn the transaction down.
CallTxReject ==
    /\ call.kind = "multi"
    /\ call.res = "none"
    /\ call.k >= 1
    /\ TxCheck(call.inp.transactions[call.k]) = BadChain
    /\ call' = [call EXCEPT !.res = "InvalidParams"]
    /\ UNCHANGED <<serviceVars, gas>>

\* The transaction's turn: gas limit, create_request, send_relay_transaction,
\* the store calls for its result, the row pushed.
CallTxSend ==
    /\ call.kind = "multi"
    /\ call.res = "none"
    /\ call.k >= 1
    /\ TxCheck(call.inp.transactions[call.k]) # BadChain
    /\ LET tx == call.inp.transactions[call.k]
           done(ok) == [call EXCEPT
                          !.recs = Append(@, CallRecord(TxCheck(tx), ok)),
                          !.limits = Append(@, MultiGasLimit(tx, call.inp.simDisabled)),
                          !.sends = Append(@, IF ok THEN "ok" ELSE "err"),
                          !.rows = Append(@, tx.chain)]
       IN  \/ call' = CallNextTx(done(TRUE))
           \/ call' = CallAfterSendErr(done(FALSE))
    /\ UNCHANGED <<serviceVars, gas>>

(***************************************************************************)
(* A crash and restart: the store and the chain stay, every task's         *)
(* position and locals are gone; the monitor starts again.                 *)
(***************************************************************************)
Crash ==
    /\ crashes < MaxCrashes
    /\ crashes' = crashes + 1
    /\ interrupted' = interrupted \cup
          {h[p].id : p \in {q \in Handlers :
                              h[q].pc \in {"send", "hashR", "hashW"}}}
    /\ h' = [p \in Handlers |-> HIdle]
    /\ mon' = MIdle
    /\ UNCHANGED <<store, resubs, used, txs, mined, storeFails, stub, gas, call>>

\* The service after start on an empty store.
ServiceInit ==
    /\ store = [i \in Ids |-> Absent]
    /\ resubs = {}
    /\ used = {}
    /\ txs = [x \in Hashes |-> NoTx]
    /\ mined = [c \in Chains |-> 0]
    /\ h = [p \in Handlers |-> HIdle]
    /\ mon = MIdle
    /\ storeFails = 0
    /\ crashes = 0
    /\ interrupted = {}
    /\ stub \in BOOLEAN

Init ==
    /\ ServiceInit
    /\ gas = GasOff
    /\ call = CallOff

Intake ==
    \E p \in Handlers :
        \/ Persist(p)
        \/ HSend(p)
        \/ HRead(p)
        \/ HWrite(p)

Arrive == \E p \in Handlers : StartSingle(p) \/ StartMulti(p) \/ Return(p)

Monitor == Tick \/ MReceipt \/ MSend \/ MRead \/ MWrite \/ MResub

\* The running service: calls arrive, the handlers and the monitor take their
\* steps, the chain mines.
Next == Arrive \/ Intake \/ Monitor \/ Mine

Spec == Init /\ [][Next]_vars

\* The service with crashes, under the scheduling the runtime gives: a handler
\* or the monitor that can take a step takes it, and so does the chain.  No
\* call has to arrive and nothing has to crash.
NextCrash == Next \/ Crash

FairSpec ==
    /\ Init
    /\ [][NextCrash]_vars
    /\ WF_vars(Intake)
    /\ WF_vars(Monitor)
    /\ WF_vars(Mine)

\* One request's gas fields under every interleaving of its writers, the
\* chain's gas price moving freely; stub mode off.
GasInit ==
    /\ ServiceInit
    /\ ~stub
    /\ \E p \in Prices : gas = [GasOff EXCEPT !.price = p]
    /\ call = CallOff

GasNext ==
    GPrice \/ GIntake \/ GISend \/ GTick \/ GReceipt \/ GResend \/ GStore

GasSpec == GasInit /\ [][GasNext]_vars

\* The same with calls of Storage::update_request_nonce thrown in.
GasApiNext == GasNext \/ GNonce

GasApiSpec == GasInit /\ [][GasApiNext]_vars

\* One multichain call from its input to its response, nothing else running;
\* stub mode off, no RocksDB failure.
CallInit ==
    /\ ServiceInit
    /\ ~stub
    /\ gas = GasOff
    /\ \E i \in MultiInputs :
         call = [kind |-> "multi", inp |-> i, k |-> 0, recs |-> <<>>,
                 limits |-> <<>>, sends |-> <<>>, rows |-> <<>>, res |-> "none"]

CallNext == CallValidate \/ CallTxReject \/ CallTxSend

CallSpec == CallInit /\ [][CallNext]_vars

(***************************************************************************)
(* One single-chain call taken by itself, from the request as it came in   *)
(* to the response.  Strings are sequences of characters; what the chain   *)
(* answers is chosen when the handler asks.  No RocksDB failure.           *)
(***************************************************************************)
\* u64::from_str on the chainId string: None for a character that is no digit.
ParseErr == -1

\* input.chain_id.parse::<u64>().
parse_u64(s) ==
    LET digit(c) == CASE c = "0" -> 0 [] c = "1" -> 1 [] c = "2" -> 2
                      [] c = "9" -> 9 [] OTHER -> ParseErr
        RECURSIVE value(_)
        value(t) == IF t = <<>> THEN 0
                    ELSE 10 * value(SubSeq(t, 1, Len(t) - 1)) + digit(t[Len(t)])
    IN  IF s = <<>> \/ \E k \in 1..Len(s) : digit(s[k]) = ParseErr THEN ParseErr
        ELSE value(s)

\* cfg.is_chain_supported: the chain has an RPC URL.
is_chain_supported(chain_id) == chain_id \in Chains

\* str::to_ascii_lowercase, on the letters the model's strings have.
to_ascii_lowercase(s) ==
    LET lower(c) == CASE c = "A" -> "a" [] c = "X" -> "x" [] OTHER -> c
    IN  [k \in 1..Len(s) |-> lower(s[k])]

\* "0x0000000000000000000000000000000000000000".  The model's addresses are
\* "0x" and two hex digits, where the source's have forty.
ZeroAddress == <<"0", "x", "0", "0">>

\* cfg.get_supported_tokens(): the keys of chainlink.tokenUsd, as written in
\* the configuration.
get_supported_tokens == {<<"0", "x", "a", "A">>}

\* The function selector of executeWithRelayer.
Selector == <<"c3", "a4", "e9", "ca">>

\* relayer_sendTransaction's parameters and the relayer's configuration.
\* data: none, three bytes, the selector alone, the selector and an argument
\* byte, four bytes that are not the selector.  token: none, the zero
\* address, the supported token in three letter cases, one that is not
\* supported, one with the prefix 0X, one that is too short.
SubmitInputs ==
    [to : {"wallet", "junk", ""},
     data : {<<>>, <<"c3", "a4", "e9">>, Selector, Selector \o <<"00">>,
             <<"c3", "a4", "e9", "00">>},
     chain_id : {<<>>, <<"1">>, <<"0", "1">>, <<"9">>, <<"x">>},
     payment_type : PayTypes \cup {""},
     token : {<<>>, ZeroAddress, <<"0", "x", "a", "A">>, <<"0", "x", "a", "a">>,
              <<"0", "x", "A", "A">>, <<"0", "x", "0", "a">>,
              <<"0", "X", "a", "A">>, <<"0", "x", "a">>},
     authorization_list : {"", "valid", "invalid"},
     simDisabled : BOOLEAN]

\* process_send_transaction from its first check to
\* validate_authorization_list: the error it returns, or "ok".
CheckRequest(inp) ==
    IF inp.to = "" THEN "InvalidParams"
    ELSE IF inp.data = <<>> THEN "InvalidParams"
    ELSE IF inp.chain_id = <<>> THEN "InvalidParams"
    ELSE IF inp.payment_type = "" THEN "InvalidParams"
    ELSE IF inp.token = <<>> THEN "InvalidParams"
    ELSE IF parse_u64(inp.chain_id) = ParseErr THEN "InvalidParams"
    ELSE IF ~is_chain_supported(parse_u64(inp.chain_id)) THEN "InvalidParams"
    ELSE IF inp.to = "junk" THEN "InvalidParams"
    ELSE IF inp.authorization_list = "invalid" THEN "InvalidSignature"
    ELSE "ok"

\* The gas price when the node gives none: 20 gwei.  Prices here are in gwei.
DefaultGasPrice == 20

\* fetch_gas_price: the default in stub mode and when the RPC call fails,
\* else what eth_gasPrice answers.
fetch_gas_price(stubMode) ==
    IF stubMode THEN {DefaultGasPrice} ELSE Prices \cup {DefaultGasPrice}

\* simulate_transaction on the call's calldata: the default when simulation
\* is disabled or in stub mode; else Err for calldata shorter than the
\* selector, for another selector, for a reverting eth_call and for a failed
\* estimate; else the estimate.
SimulateCalldata(data, answer, simDisabled, stubMode) ==
    IF simDisabled \/ stubMode THEN DefaultGasLimit
    ELSE IF Len(data) < Len(Selector) THEN SimErr
    ELSE IF SubSeq(data, 1, Len(Selector)) # Selector THEN SimErr
    ELSE simulate_transaction(IF answer = "ok" THEN "ok" ELSE "reject", FALSE, FALSE)

\* U256::checked_mul.  fetch_gas_price formats a u128 and the estimate is a
\* u64, so the product stays below 2^192; the model's largest number stands
\* for 2^256 - 1.
U256Max == 2000000000
Overflow == -1

checked_mul(a, b) == IF a * b > U256Max THEN Overflow ELSE a * b

\* What eth_getBalance may answer: nothing, one wei (here gwei) short of the
\* cheapest requirement, exactly that, and plenty.
Balances ==
    {0, 10 * GasEstimate - 1, 10 * GasEstimate, DefaultGasPrice * DefaultGasLimit}

BalanceErr == -1

\* A balance check that lets a wallet one wei short through.
BalanceShort_lenient(balance, required_balance) == balance + 1 < required_balance

\* `balance < required_balance`.
BalanceShort(balance, required_balance) == balance < required_balance

\* The match on the payment type: the error it returns, or "ok".
CheckPayment(inp, gas_price, sim_gas, balance) ==
    CASE inp.payment_type = "native" ->
            IF inp.token # ZeroAddress THEN "InvalidParams"
            ELSE IF checked_mul(gas_price, sim_gas) = Overflow THEN "InternalError"
            ELSE IF balance = BalanceErr THEN "InternalError"
            ELSE IF BalanceShort(balance, checked_mul(gas_price, sim_gas))
                 THEN "InvalidParams"
            ELSE "ok"
      [] inp.payment_type = "erc20" ->
            IF \/ ~(Len(inp.token) >= 2 /\ SubSeq(inp.token, 1, 2) = <<"0", "x">>)
               \/ Len(inp.token) # Len(ZeroAddress)
            THEN "InvalidParams"
            ELSE IF ~\E token \in get_supported_tokens :
                        to_ascii_lowercase(token) = to_ascii_lowercase(inp.token)
                 THEN "UnsupportedPaymentToken"
            ELSE "ok"
      [] inp.payment_type = "sponsored" -> "ok"
      [] OTHER -> "UnsupportedCapability"

\* The RelayerRequest literal of process_send_transaction.
SubmitRequest(chain_id, gas_limit, gas_price) ==
    [status |-> "Pending", hash |-> NoHash, err |-> "none", chain |-> chain_id,
     gas_limit |-> gas_limit, gas_price |-> gas_price, nonce |-> 0]

SubmitAbsent ==
    [status |-> "Absent", hash |-> NoHash, err |-> "none", chain |-> BadChain,
     gas_limit |-> 0, gas_price |-> 0, nonce |-> 0]

\* A handler that sets Processing and leaves the hash out.
AfterBroadcast_noHash(rec, tx_hash, stubMode) ==
    update_request_status(rec, IF stubMode THEN "Completed" ELSE "Processing", "none")

\* The store calls after Ok(tx_hash): update_request_tx_hash, then
\* update_request_status(Processing), then in stub mode
\* update_request_status(Completed).
AfterBroadcast(rec, tx_hash, stubMode) ==
    LET processing ==
            update_request_status(update_request_tx_hash(rec, tx_hash),
                                  "Processing", "none")
    IN  IF stubMode THEN update_request_status(processing, "Completed", "none")
        ELSE processing

\* The call as it comes in.
SubmitCall(inp) ==
    [kind |-> "single", inp |-> inp, pc |-> "check", res |-> "none",
     chain |-> BadChain, gas_price |-> 0, sim |-> "none", sim_gas |-> 0,
     balance |-> BalanceErr, id |-> 0, hash |-> NoHash,
     store |-> [i \in Ids |-> SubmitAbsent], sends |-> <<>>, rows |-> <<>>]

\* The checks up to validate_authorization_list.
SubmitCheck ==
    /\ call.kind = "single"
    /\ call.pc = "check"
    /\ call' = IF CheckRequest(call.inp) = "ok"
               THEN [call EXCEPT !.pc = "simulate",
                                 !.chain = parse_u64(call.inp.chain_id)]
               ELSE [call EXCEPT !.pc = "done", !.res = CheckRequest(call.inp)]
    /\ UNCHANGED <<serviceVars, gas>>

\* fetch_gas_price with the handler's fallback, simulate_transaction and the
\* match on its result.
SubmitSimulate ==
    /\ call.kind = "single"
    /\ call.pc = "simulate"
    /\ \E p \in fetch_gas_price(stub), a \in {"ok", "revert", "noEstimate"} :
         LET r == SimulateCalldata(call.inp.data, a, call.inp.simDisabled, stub)
             c == [call EXCEPT !.gas_price = p, !.sim = a]
         IN  call' = IF r # SimErr
                     THEN [c EXCEPT !.pc = "payment", !.sim_gas = r]
                     ELSE IF call.inp.simDisabled
                          THEN [c EXCEPT !.pc = "payment", !.sim_gas = DefaultGasLimit]
                          ELSE [c EXCEPT !.pc = "done", !.res = "SimulationFailed"]
    /\ UNCHANGED <<serviceVars, gas>>

\* The match on the payment type; the native arm asks for the balance.
SubmitPayment ==
    /\ call.kind = "single"
    /\ call.pc = "payment"
    /\ \E b \in (IF call.inp.payment_type = "native" /\ call.inp.token = ZeroAddress
                 THEN Balances \cup {BalanceErr} ELSE {BalanceErr}) :
         LET r == CheckPayment(call.inp, call.gas_price, call.sim_gas, b) IN
         call' = IF r = "ok" THEN [call EXCEPT !.pc = "create", !.balance = b]
                 ELSE [call EXCEPT !.pc = "done", !.res = r, !.balance = b]
    /\ UNCHANGED <<serviceVars, gas>>

\* Uuid::new_v4 and create_request.
SubmitCreate ==
    /\ call.kind = "single"
    /\ call.pc = "create"
    /\ \E id \in Ids :
         call' = [call EXCEPT
                    !.pc = "send", !.id = id,
                    !.store[id] = SubmitRequest(call.chain, call.sim_gas, call.gas_price)]
    /\ UNCHANGED <<serviceVars, gas>>

\* send_relay_transaction(to, data, chain_id, gas_limit, gas_price), the
\* store calls for its result, and the response.
SubmitSend ==
    /\ call.kind = "single"
    /\ call.pc = "send"
    /\ \/ \E x \in Hashes :
            call' = [call EXCEPT
                       !.pc = "done", !.res = "ok", !.hash = x,
                       !.sends = Append(@, [data |-> call.inp.data,
                                            gas_limit |-> call.sim_gas,
                                            gas_price |-> call.gas_price,
                                            hash |-> x]),
                       !.store[call.id] = AfterBroadcast(@, x, stub),
                       !.rows = <<[chainId |-> call.inp.chain_id, id |-> call.id]>>]
       \/ /\ ~stub
          /\ call' = [call EXCEPT
                        !.pc = "done", !.res = "InternalError",
                        !.store[call.id] = update_request_status(@, "Failed", "send")]
    /\ UNCHANGED <<serviceVars, gas>>

\* One single-chain call from its input to its response, nothing else
\* running; stub mode on or off.
SubmitInit ==
    /\ ServiceInit
    /\ gas = GasOff
    /\ \E i \in SubmitInputs : call = SubmitCall(i)

SubmitNext ==
    \/ SubmitCheck
    \/ SubmitSimulate
    \/ SubmitPayment
    \/ SubmitCreate
    \/ SubmitSend

SubmitSpec == SubmitInit /\ [][SubmitNext]_vars

(***************************************************************************)
(* The store by itself: RocksDB as a map from keys to JSON values, and the *)
(* calls of Storage and of relayer_getStatus made one after the other.     *)
(* Option<String> is <<>> for None and <<s>> for Some(s).                  *)
(***************************************************************************)
MaxOps == 3             \* store calls in a run

\* The keys: request:{id} and resubmission:{id}:{chain}:{hash}.  A request
\* is on one chain, so the chain is left out of the key.
DbKeys ==
    [prefix : {"request"}, id : Ids, hash : {NoHash}]
    \cup [prefix : {"resubmission"}, id : Ids, hash : Hashes]

\* The keys in the order RocksDB iterates them, the order of their bytes:
\* "request:" before "resubmission:", then the uuid, then the hash (hashes
\* are hex strings of one length, so their order is that of their values).
KeyOrder ==
    LET rank(k) == IF k.prefix = "request" THEN k.id
                   ELSE MaxRequests + (k.id * (MaxBroadcasts + 1)) + k.hash
        RECURSIVE sorted(_)
        sorted(S) == IF S = {} THEN <<>>
                     ELSE LET m == CHOOSE x \in S : \A y \in S : rank(x) <= rank(y)
                          IN  <<m>> \o sorted(S \ {m})
    IN  sorted(DbKeys)

NoValue == <<>>

\* serde_json::to_string(request) with None written as ""; the key is left
\* where it was.
to_string_noNull(r) ==
    LET some(o) == [t |-> "str", v |-> IF o = <<>> THEN "" ELSE o[1]]
    IN  [id |-> [t |-> "str", v |-> r.id],
         gas_limit |-> [t |-> "num", v |-> r.gas_limit],
         nonce |-> [t |-> "num", v |-> r.nonce],
         data |-> some(r.data),
         transaction_hash |-> some(r.transaction_hash),
         status |-> [t |-> "str", v |-> r.status],
         created_at |-> [t |-> "str", v |-> r.created_at],
         updated_at |-> [t |-> "str", v |-> r.updated_at],
         error_message |-> some(r.error_message)]

\* serde_json::to_string(request): a JSON object with one member per field;
\* None is null, Some(s) the string, u64 a number, the uuid, the status and
\* the timestamps strings.  from_address, to_address, amount and gas_price
\* are strings like data, nonce and chain_id numbers like gas_limit.
to_string(r) ==
    LET option(o) == IF o = <<>> THEN [t |-> "null", v |-> ""]
                     ELSE [t |-> "str", v |-> o[1]]
    IN  [id |-> [t |-> "str", v |-> r.id],
         gas_limit |-> [t |-> "num", v |-> r.gas_limit],
         nonce |-> [t |-> "num", v |-> r.nonce],
         data |-> option(r.data),
         transaction_hash |-> option(r.transaction_hash),
         status |-> [t |-> "str", v |-> r.status],
         created_at |-> [t |-> "str", v |-> r.created_at],
         updated_at |-> [t |-> "str", v |-> r.updated_at],
         error_message |-> option(r.error_message)]

\* serde_json::from_slice::<RelayerRequest>.
from_slice(j) ==
    LET option(x) == IF x.t = "null" THEN <<>> ELSE <<x.v>>
    IN  [id |-> j.id.v,
         gas_limit |-> j.gas_limit.v,
         nonce |-> j.nonce.v,
         data |-> option(j.data),
         transaction_hash |-> option(j.transaction_hash),
         status |-> j.status.v,
         created_at |-> j.created_at.v,
         updated_at |-> j.updated_at.v,
         error_message |-> option(j.error_message)]

\* Storage::store_request: one put under request:{id}.
store_request(db, r) ==
    [db EXCEPT ![[prefix |-> "request", id |-> r.id, hash |-> NoHash]] = to_string(r)]

\* Storage::get_request: <<>> for None, <<r>> for Some(r).
get_request(db, id) ==
    IF id \notin Ids \/ db[[prefix |-> "request", id |-> id, hash |-> NoHash]] = NoValue THEN <<>>
    ELSE <<from_slice(db[[prefix |-> "request", id |-> id, hash |-> NoHash]])>>

\* An update that stamps created_at as well.
Storage_update_request_status_stampsBoth(db, id, status, error_message, now) ==
    IF get_request(db, id) = <<>> THEN db
    ELSE store_request(db, [get_request(db, id)[1] EXCEPT
                              !.status = status, !.created_at = now,
                              !.updated_at = now,
                              !.error_message = error_message])

\* Storage::update_request_status: get_request, the three assignments,
\* store_request; nothing for a missing key.
Storage_update_request_status(db, id, status, error_message, now) ==
    IF get_request(db, id) = <<>> THEN db
    ELSE store_request(db, [get_request(db, id)[1] EXCEPT
                              !.status = status, !.updated_at = now,
                              !.error_message = error_message])

\* An update_request_tx_hash that stores a record for an id that has none.
Storage_update_request_tx_hash_upsert(db, id, tx_hash, now) ==
    store_request(db, [(IF get_request(db, id) = <<>>
                        THEN [id |-> id, gas_limit |-> 0, nonce |-> 0,
                              data |-> <<>>, transaction_hash |-> <<>>,
                              status |-> "Pending", created_at |-> now,
                              updated_at |-> now, error_message |-> <<>>]
                        ELSE get_request(db, id)[1]) EXCEPT
                          !.transaction_hash = <<tx_hash>>, !.updated_at = now])

\* Storage::update_request_tx_hash.
Storage_update_request_tx_hash(db, id, tx_hash, now) ==
    IF get_request(db, id) = <<>> THEN db
    ELSE store_request(db, [get_request(db, id)[1] EXCEPT
                              !.transaction_hash = <<tx_hash>>,
                              !.updated_at = now])

\* An update_request_nonce that stamps created_at.
Storage_update_request_nonce_stampsCreated(db, id, nonce, now) ==
    IF get_request(db, id) = <<>> THEN db
    ELSE store_request(db, [get_request(db, id)[1] EXCEPT
                              !.nonce = nonce, !.created_at = now])

\* Storage::update_request_nonce.
Storage_update_request_nonce(db, id, nonce, now) ==
    IF get_request(db, id) = <<>> THEN db
    ELSE store_request(db, [get_request(db, id)[1] EXCEPT
                              !.nonce = nonce, !.updated_at = now])

\* serde_json::to_string(resub) and the key add_resubmission puts it under.
add_resubmission(db, request_id, resub) ==
    [db EXCEPT ![[prefix |-> "resubmission", id |-> request_id,
                  hash |-> resub.transaction_hash]] =
        [status |-> [t |-> "num", v |-> resub.status],
         transactionHash |-> [t |-> "str", v |-> resub.transaction_hash]]]

\* Storage::get_resubmissions: the iterator is placed at the prefix
\* resubmission:{id}: and the values are pushed as the keys come, until a key
\* without the prefix.
get_resubmissions(db, request_id) ==
    LET has(k) == k.prefix = "resubmission" /\ k.id = request_id
        before(k) == k.prefix = "request"
                     \/ (k.prefix = "resubmission" /\ k.id < request_id)
        RECURSIVE from(_)
        from(n) == IF n > Len(KeyOrder) THEN <<>>
                   ELSE IF db[KeyOrder[n]] = NoValue \/ before(KeyOrder[n])
                        THEN from(n + 1)
                   ELSE IF ~has(KeyOrder[n]) THEN <<>>
                   ELSE <<[status |-> db[KeyOrder[n]].status.v,
                           transaction_hash |-> db[KeyOrder[n]].transactionHash.v]>>
                        \o from(n + 1)
    IN  from(1)

\* The keys an iterator from "request:" meets while the key starts with one
\* of `prefixes`; the first other key ends the loop.
Scan(db, prefixes) ==
    LET RECURSIVE from(_)
        from(k) == IF k > Len(KeyOrder) THEN <<>>
                   ELSE IF db[KeyOrder[k]] = NoValue THEN from(k + 1)
                   ELSE IF KeyOrder[k].prefix \notin prefixes THEN <<>>
                   ELSE <<KeyOrder[k]>> \o from(k + 1)
    IN  from(1)

\* Storage::get_request_count_by_status.
get_request_count_by_status(db, status) ==
    LET keys == Scan(db, {"request"})
    IN  Cardinality({n \in 1..Len(keys) : from_slice(db[keys[n]]).status = status})

\* A count that does not stop where the request: keys end.
get_total_request_count_allKeys(db) == Len(Scan(db, {"request", "resubmission"}))

\* Storage::get_total_request_count.
get_total_request_count(db) == Len(Scan(db, {"request"}))

Statuses == {"Pending", "Processing", "Completed", "Failed"}

\* The records a caller may hand to create_request at time t.
DbRequests(t) ==
    [id : Ids, gas_limit : {DefaultGasLimit}, nonce : {0}, data : {<<"">>},
     transaction_hash : {<<>>}, status : Statuses,
     created_at : {t}, updated_at : {t}, error_message : {<<>>, <<"">>}]

\* A request mapped to 200 while it is Pending.
StatusCode_pendingOk(status) ==
    CASE status = "Processing" -> 201
      [] status \in {"Pending", "Completed"} -> 200
      [] status = "Failed" -> 500

\* The match on req.status in process_get_status.
StatusCode(status) ==
    CASE status \in {"Pending", "Processing"} -> 201
      [] status = "Completed" -> 200
      [] status = "Failed" -> 500

\* process_get_status: one row for each id of the request, pushed in turn.
\* Uuid::parse_str is taken over digit strings.
process_get_status(db, ids) ==
    [n \in 1..Len(ids) |->
        [id |-> ids[n],
         status |-> IF parse_u64(ids[n]) = ParseErr THEN 400
                    ELSE IF get_request(db, parse_u64(ids[n])) = <<>> THEN 404
                    ELSE StatusCode(get_request(db, parse_u64(ids[n]))[1].status),
         resubmissions |->
             IF parse_u64(ids[n]) = ParseErr
                \/ get_request(db, parse_u64(ids[n])) = <<>> THEN <<>>
             ELSE get_resubmissions(db, parse_u64(ids[n]))]]

\* The machine: the database, the clock, the calls made so far, the last
\* call, and the resubmission entries in the order they were appended.
DbCall(db, now, op) ==
    [kind |-> "store", db |-> db, now |-> now, n |-> call.n + 1, op |-> op,
     appended |-> IF op.name = "resub"
                  THEN Append(call.appended, [id |-> op.id, hash |-> op.hash])
                  ELSE call.appended]

\* Utc::now() at a call: the clock may have moved on since the last.
Clock == {call.now, call.now + 1}

\* Storage::create_request(r) with a record as the handlers build it:
\* created_at and updated_at are two readings of the clock, in that order,
\* and the clock may have moved on between them.
DbCreate ==
    /\ call.kind = "store"
    /\ call.n < MaxOps
    /\ \E u \in Clock, r \in DbRequests(call.now) :
         call' = DbCall(store_request(call.db, [r EXCEPT !.updated_at = u]), u,
                        [name |-> "create", rec |-> [r EXCEPT !.updated_at = u]])
    /\ UNCHANGED <<serviceVars, gas>>

\* Storage::update_request_status(id, status, error_message); `read` is
\* what its get_request returned.
DbUpdate ==
    /\ call.kind = "store"
    /\ call.n < MaxOps
    /\ \E t \in Clock, id \in Ids, s \in Statuses, m \in {<<>>, <<"e">>} :
         call' = DbCall(Storage_update_request_status(call.db, id, s, m, t), t,
                        [name |-> "update", id |-> id, status |-> s,
                         error_message |-> m,
                         read |-> get_request(call.db, id)])
    /\ UNCHANGED <<serviceVars, gas>>

\* Storage::update_request_tx_hash(id, tx_hash).
DbTxHash ==
    /\ call.kind = "store"
    /\ call.n < MaxOps
    /\ \E t \in Clock, id \in Ids, x \in Hashes :
         call' = DbCall(Storage_update_request_tx_hash(call.db, id, x, t), t,
                        [name |-> "hash", id |-> id, hash |-> x,
                         read |-> get_request(call.db, id)])
    /\ UNCHANGED <<serviceVars, gas>>

\* Storage::update_request_nonce(id, nonce).
DbNonce ==
    /\ call.kind = "store"
    /\ call.n < MaxOps
    /\ \E t \in Clock, id \in Ids :
         call' = DbCall(Storage_update_request_nonce(call.db, id, 7, t), t,
                        [name |-> "nonce", id |-> id,
                         read |-> get_request(call.db, id)])
    /\ UNCHANGED <<serviceVars, gas>>

\* Storage::add_resubmission, as the monitor calls it: status 201 and the
\* hash its broadcast returned, which no earlier broadcast had.
DbResub ==
    /\ call.kind = "store"
    /\ call.n < MaxOps
    /\ \E id \in Ids, x \in Hashes :
         /\ \A e \in 1..Len(call.appended) : call.appended[e].hash # x
         /\ call' = DbCall(add_resubmission(call.db, id,
                                            [status |-> 201, transaction_hash |-> x]),
                           call.now, [name |-> "resub", id |-> id, hash |-> x])
    /\ UNCHANGED <<serviceVars, gas>>

\* relayer_getStatus with up to MaxStatusIds ids.
MaxStatusIds == 3

DbStatus ==
    /\ call.kind = "store"
    /\ call.n < MaxOps
    /\ \E ids \in SeqsUpTo({<<"1">>, <<"0", "2">>, <<"9">>, <<"x">>}, MaxStatusIds) :
         call' = DbCall(call.db, call.now,
                        [name |-> "status", ids |-> ids,
                         rows |-> process_get_status(call.db, ids)])
    /\ UNCHANGED <<serviceVars, gas>>

\* An empty database.
DbInit ==
    /\ ServiceInit
    /\ gas = GasOff
    /\ call = [kind |-> "store", db |-> [k \in DbKeys |-> NoValue], now |-> 0,
               n |-> 0, op |-> [name |-> "none"], appended |-> <<>>]

DbNext == DbCreate \/ DbUpdate \/ DbTxHash \/ DbNonce \/ DbResub \/ DbStatus

DbSpec == DbInit /\ [][DbNext]_vars

(***************************************************************************)
(* The Pricer: relayer_getExchangeRate and relayer_getFeeData, both        *)
(* answered by build_exchange_rate_response.  The configuration and what   *)
(* the chain answers are chosen with the request.                          *)
(***************************************************************************)
\* The request, the chainlink section of the configuration (the chains with
\* a nativeUsd feed, the keys of tokenUsd as written, under every chain that
\* has any), and what the chain answers to latestAnswer() of the two feeds
\* and to eth_gasPrice.
PriceInputs ==
    [token : {ZeroAddress, <<"0", "X", "0", "0">>, <<"0", "x", "a", "A">>,
              <<"0", "x", "a", "a">>, <<"0", "x", "0", "a">>, <<>>},
     chain_id : {<<"1">>, <<"0", "1">>, <<"9">>, <<"x">>, <<>>},
     nativeUsd : SUBSET {1, 9},
     tokenUsd : {{}, {<<"0", "x", "a", "a">>}, {<<"0", "x", "a", "A">>}},
     tokenUsdChains : {{1}, {1, 9}},
     native_px : {<<>>, <<0>>, <<5>>},
     token_px : {<<>>, <<5>>}]

\* cfg.chainlink_native_usd: Some for a chain under chainlink.nativeUsd.
chainlink_native_usd(inp, chain_id) ==
    IF chain_id \in inp.nativeUsd THEN <<"feed">> ELSE <<>>

\* cfg.chainlink_token_usd: the lower-cased token is looked up among the
\* keys of chainlink.tokenUsd[chain] as they are written.
chainlink_token_usd(inp, chain_id, token_address) ==
    IF chain_id \in inp.tokenUsdChains
       /\ to_ascii_lowercase(token_address) \in inp.tokenUsd
    THEN <<"feed">> ELSE <<>>

\* A check that asks for both feeds to be missing.
FeedMissing_both(token_feed, native_feed) == token_feed = <<>> /\ native_feed = <<>>

\* token_feed.is_none() || native_feed.is_none().
FeedMissing(token_feed, native_feed) == token_feed = <<>> \/ native_feed = <<>>

\* fetch_gas_price(..).unwrap_or_else(default): the default in stub mode, for
\* a chain without RPC URL and when the RPC call fails, else the chain's price.
PricerGasPrice(chain_id, stubMode) ==
    IF is_chain_supported(chain_id) THEN fetch_gas_price(stubMode)
    ELSE {DefaultGasPrice}

ErrorItem(id, message) == [kind |-> "error", id |-> id, message |-> message]

SuccessItem(address, gas_price) ==
    [kind |-> "success", address |-> address, gas_price |-> gas_price]

\* build_exchange_rate_response up to the feed lookup: the stub answer, the
\* chainId parse, the native token, the two feeds.
PriceLookup ==
    /\ call.kind = "price"
    /\ call.pc = "lookup"
    /\ LET inp == call.inp
           chain_id == parse_u64(inp.chain_id)
       IN  IF stub
           THEN call' = [call EXCEPT !.pc = "done",
                           !.item = SuccessItem(inp.token, DefaultGasPrice)]
           ELSE IF chain_id = ParseErr
           THEN call' = [call EXCEPT !.pc = "done",
                           !.item = ErrorItem(inp.chain_id, "invalid chainId")]
           ELSE IF to_ascii_lowercase(inp.token) = ZeroAddress
           THEN \E p \in PricerGasPrice(chain_id, stub) :
                  call' = [call EXCEPT !.pc = "done",
                             !.item = SuccessItem(ZeroAddress, p)]
           ELSE IF FeedMissing(chainlink_token_usd(inp, chain_id, inp.token),
                               chainlink_native_usd(inp, chain_id))
           THEN call' = [call EXCEPT !.pc = "done",
                           !.item = ErrorItem(inp.token,
                                      "oracle feed not configured for chain/token")]
           ELSE call' = [call EXCEPT !.pc = "oracle"]
    /\ UNCHANGED <<serviceVars, gas>>

\* The rest: the RPC URL, the oracle reads, the gas price.
PriceOracle ==
    /\ call.kind = "price"
    /\ call.pc = "oracle"
    /\ LET inp == call.inp
           chain_id == parse_u64(inp.chain_id)
       IN  IF ~is_chain_supported(chain_id)
           THEN call' = [call EXCEPT !.pc = "done",
                           !.item = ErrorItem(chain_id, "rpc not configured for chain")]
           ELSE IF inp.native_px \in {<<>>, <<0>>} \/ inp.token_px = <<>>
           THEN call' = [call EXCEPT !.pc = "done",
                           !.item = ErrorItem(inp.token, "failed to read oracle price")]
           ELSE \E p \in PricerGasPrice(chain_id, stub) :
                  call' = [call EXCEPT !.pc = "done",
                             !.item = SuccessItem(inp.token, p)]
    /\ UNCHANGED <<serviceVars, gas>>

PriceInit ==
    /\ ServiceInit
    /\ gas = GasOff
    /\ \E i \in PriceInputs :
         call = [kind |-> "price", inp |-> i, pc |-> "lookup",
                 item |-> [kind |-> "none"]]

PriceNext == PriceLookup \/ PriceOracle

PriceSpec == PriceInit /\ [][PriceNext]_vars

(***************************************************************************)
(* The claims.                                                             *)
(***************************************************************************)
\* No RocksDB operation has failed so far.
StoreSound == storeFails = 0

\* C1: once a request's stored status is Completed or Failed, no store write
\* replaces it with a different status (stated of the production build, stub
\* mode off, and of runs in which no RocksDB operation fails).
C1_TerminalIsFinal ==
    [][(~stub /\ storeFails' = 0) =>
         \A i \in Ids : store[i].status \in Terminal =>
                            store'[i].status = store[i].status]_vars

\* C2: every change of a request's stored status is one of
\* Pending->Processing, Processing->Completed, Processing->Failed,
\* Pending->Failed (stub mode off, no RocksDB failure).
LegalTransitions ==
    {<<"Pending", "Processing">>, <<"Processing", "Completed">>,
     <<"Processing", "Failed">>, <<"Pending", "Failed">>}

C2_OnlyLegalTransitions ==
    [][(~stub /\ storeFails' = 0) =>
         \A i \in Ids :
            (store[i].status # "Absent" /\ store'[i].status # store[i].status)
               => <<store[i].status, store'[i].status>> \in LegalTransitions]_vars

\* The intake handler is between its create_request and its last store write
\* for id i.
IntakeBusy(i) ==
    \E p \in Handlers :
        /\ h[p].id = i
        /\ h[p].pc \in {"send", "hashR", "hashW", "statR", "statW", "compR",
                        "compW", "failR", "failW"}

\* The monitor has taken id i from its snapshot and is not done with it.
MonitorBusy(i) == mon.queue # <<>> /\ Head(mon.queue).id = i

\* C3: for no request id are the intake path and the monitor path at work on
\* it at the same time: intake has made all its writes before a monitor tick
\* takes the id up.
C3_SingleWriterPerId == \A i \in Ids : ~(IntakeBusy(i) /\ MonitorBusy(i))

\* The transactions the node took, stub mode's made-up hashes left out.
OnChain == {x \in Hashes : txs[x].st \in {"pending", "success", "reverted", "dropped"}}

\* C4: no two broadcasts of different requests on one chain carry the same
\* relayer nonce.
C4_NoncesNotShared ==
    \A x, y \in OnChain :
        (txs[x].id # txs[y].id /\ txs[x].chain = txs[y].chain)
            => txs[x].nonce # txs[y].nonce

\* C5: the Submitter is called for a request only while its record stands in
\* the store as Pending, every transaction broadcast belongs to a stored
\* record, and a uuid whose create_request failed gets no broadcast.
C5_PendingBeforeBroadcast ==
    /\ \A p \in Handlers : h[p].pc = "send" => store[h[p].id].status = "Pending"
    /\ \A x \in Hashes : txs[x].st # "free" => store[txs[x].id].status # "Absent"

\* C5's case: a create_request has failed (a uuid without a record) and a
\* persisted request has been broadcast.
C5_Witness ==
    /\ \E i \in used : store[i].status = "Absent"
    /\ \E x \in Hashes : txs[x].st # "free"


\* C6: a request's transaction_hash is None or a hash the Submitter returned
\* for that request, and when a resubmission's last store write is over the
\* record carries the hash the resubmission got and the resubmission entry of
\* that hash is there (stub mode off, no RocksDB failure).
C6_HashIsNewestBroadcast ==
    [][(~stub /\ storeFails' = 0) =>
         /\ \A i \in Ids :
               \/ store'[i].hash = NoHash
               \/ /\ txs'[store'[i].hash].st # "free"
                  /\ txs'[store'[i].hash].id = i
         /\ (mon.pc = "statW" /\ mon'.pc # "statW") =>
               /\ store'[Head(mon.queue).id].hash = mon.hash
               /\ <<Head(mon.queue).id, Head(mon.queue).chain, mon.hash>>
                     \in resubs']_vars

ValidationErrors ==
    {"InvalidParams", "InvalidSignature", "UnsupportedPaymentToken",
     "UnsupportedCapability", "SimulationFailed"}

\* C7: a call that returns a validation error has created no record and has
\* broadcast nothing (stub mode off, no RocksDB failure).
C7_ValidationPersistsNothing ==
    (~stub /\ StoreSound) =>
        \A p \in Handlers :
            (h[p].pc = "done" /\ h[p].res \in ValidationErrors)
                => (h[p].made = <<>> /\ h[p].sent = 0)

\* C8: a single-chain call that met a failure after its Pending record was
\* persisted returns InternalError and leaves the record Failed with a message
\* (stub mode off).
C8_FailureAfterPendingMarksFailed ==
    ~stub =>
        \A p \in Handlers :
            (h[p].pc = "done" /\ h[p].kind = "single" /\ h[p].pf) =>
                /\ h[p].res = "InternalError"
                /\ store[h[p].made[Len(h[p].made)]].status = "Failed"
                /\ store[h[p].made[Len(h[p].made)]].err # "none"

\* The chain has mined the transaction the record of id i points to.
CurrentMined(i) ==
    /\ store[i].hash # NoHash
    /\ txs[store[i].hash].st \in {"success", "reverted"}

\* C9: a request that is Processing with a transaction_hash, and whose current
\* transaction the chain has mined, is eventually Completed or Failed,
\* wherever its key sorts in the store (stub mode off).
C9_EventuallyTerminal ==
    \A i \in Ids :
        (~stub /\ store[i].status = "Processing" /\ CurrentMined(i))
            ~> (store[i].status \in Terminal)

\* C10: a request whose intake a crash cut short after its Pending record was
\* persisted and before its transaction_hash was stored is, after the restart,
\* eventually broadcast or moved to Completed or Failed.
C10_InterruptedIntakeRecovered ==
    \A i \in Ids :
        (i \in interrupted)
            ~> (i \notin interrupted \/ store[i].status \in Terminal)

\* C11: once the Pending record is there no store call and no monitor tick
\* changes its gas_limit, and every resubmission is sent with the stored
\* gas_limit.
C11_GasLimitFrame ==
    [][/\ gas.rec.status # "Absent" => gas'.rec.gas_limit = gas.rec.gas_limit
       /\ \A k \in 2..Len(gas'.sent) :
             gas'.sent[k].gas_limit = gas'.sent[k].stored_limit]_vars

\* Two resubmissions of a request whose gas_limit is an estimate, its nonce
\* written meanwhile.
C11_Witness ==
    /\ Len(gas.sent) = 3
    /\ gas.rec.gas_limit # DefaultGasLimit
    /\ gas.rec.nonce # 0
    /\ gas.rec.status = "Processing"

\* C12: the request of every stored resubmission entry exists and is
\* Processing, Completed or Failed, never Pending (stub mode off, no RocksDB
\* failure).
C12_ResubmissionParent ==
    (~stub /\ StoreSound) =>
        \A e \in resubs :
            store[e[1]].status \in {"Processing", "Completed", "Failed"}

C14_MultichainSimulationRejects ==
    \A j \in 1..Len(call.inp.transactions) :
        (/\ TxCheck(call.inp.transactions[j]) # BadChain
         /\ simulate_transaction(call.inp.transactions[j].sim,
                                 call.inp.simDisabled, FALSE) = SimErr)
            => /\ Len(call.recs) < j
               /\ (call.res # "none" /\ call.k = j) => call.res = "SimulationFailed"

\* C15: a multichain call with payment type erc20 and a well-formed token
\* that is not a supported token is rejected with UnsupportedPaymentToken
\* (its transactions and paymentChainId being in order), with nothing
\* persisted or broadcast.
C15_MultichainTokenSupported ==
    (/\ call.inp.payType = "erc20"
     /\ call.inp.token = "unlisted"
     /\ call.inp.transactions # <<>>
     /\ call.inp.payChainOk)
        => /\ call.k = 0
           /\ call.recs = <<>>
           /\ call.res \in {"none", "UnsupportedPaymentToken"}

\* The monitor takes a step.
MonitorStep == mon' # mon

\* C16: for a snapshot record the monitor goes to write Completed only on a
\* success receipt and Failed only on a fail receipt; its write makes the
\* record Completed, resp. Failed with "onchain revert"; and on that path it
\* broadcasts nothing and adds no resubmission entry (stub mode off, no
\* RocksDB failure on the write).
C16_ReceiptOutcome ==
    [][(~stub /\ MonitorStep /\ mon.queue # <<>>) =>
         LET req == Head(mon.queue) IN
         /\ (mon.pc = "receipt" /\ mon'.pc = "compR") => txs[req.hash].st = "success"
         /\ (mon.pc = "receipt" /\ mon'.pc = "revR") => txs[req.hash].st = "reverted"
         /\ (mon.pc = "receipt" /\ txs[req.hash].st = "success")
               => mon'.pc \in {"compR", "send"}
         /\ (mon.pc = "receipt" /\ txs[req.hash].st = "reverted")
               => mon'.pc \in {"revR", "send"}
         /\ (mon.pc = "compW" /\ storeFails' = storeFails)
               => store'[req.id].status = "Completed"
         /\ (mon.pc = "revW" /\ storeFails' = storeFails)
               => store'[req.id].status = "Failed" /\ store'[req.id].err = "revert"
         /\ mon.pc \in {"compR", "compW", "revR", "revW"}
               => /\ txs' = txs
                  /\ resubs' = resubs
                  /\ mon.hash = NoHash
                  /\ mon'.pc \in {"compW", "revW", "sleep", "receipt"}]_vars

\* One request is Completed on a success receipt, another Failed on a reverted one.
C16_Witness ==
    /\ ~stub
    /\ \E i \in Ids :
          /\ store[i].status = "Completed"
          /\ txs[store[i].hash].st = "success"
    /\ \E i \in Ids :
          /\ store[i].status = "Failed"
          /\ store[i].err = "revert"
          /\ txs[store[i].hash].st = "reverted"

\* C17: when the monitor's tick took a Processing record, found no receipt
\* and resubmitted, then after the tick's last store write the record carries
\* the new hash, its resubmission entry is there and the status is
\* Processing; when the rebroadcast failed, the record is Failed with the
\* Submitter's error and the tick added no resubmission entry.
C17_ResubmissionOutcome ==
    [][(/\ gas.w["monitor"].pc = "write"
        /\ gas'.w["monitor"].pc = "idle"
        /\ gas.req.status = "Processing") =>
         LET o == Head(gas.w["monitor"].seq) IN
         /\ o.status = "Processing" =>
               /\ gas'.rec.hash = Len(gas.sent)
               /\ Len(gas.sent) \in gas'.resubs
               /\ gas'.rec.status = "Processing"
         /\ o.status = "Failed" =>
               /\ gas'.rec.status = "Failed"
               /\ gas'.rec.err = "send"
               /\ gas'.resubs = gas.resubs]_vars

Max2(a, b) == IF a >= b THEN a ELSE b

\* C18: every resubmission is sent at max(current chain gas price, stored
\* gas_price x 1.20), so at 1.2 times the stored gas_price or more.
C18_BumpedPrice ==
    \A k \in 2..Len(gas.sent) :
        /\ 10 * gas.sent[k].gas_price =
              Max2(10 * gas.sent[k].current, 12 * gas.sent[k].stored_price)
        /\ 10 * gas.sent[k].gas_price >= 12 * gas.sent[k].stored_price

\* C19: the gas prices of a request's successive broadcasts never go down.
C19_PricesNonDecreasing ==
    \A k \in 1..(Len(gas.sent) - 1) :
        gas.sent[k].gas_price <= gas.sent[k + 1].gas_price

\* C20: when a successful resubmission has made its last store write, the
\* record's gas_price is the price of that broadcast.
C20_StoredPriceFollows ==
    [][(/\ gas.w["monitor"].pc = "write"
        /\ gas'.w["monitor"].pc = "idle"
        /\ Head(gas.w["monitor"].seq).status = "Processing")
          => gas'.rec.gas_price = gas.sent[Len(gas.sent)].gas_price]_vars

\* C21: a single-chain call whose broadcast returned a hash answers ok with
\* the one row {chainId as supplied, id}, and at that moment (stub mode off,
\* no monitor tick, no RocksDB failure) the store holds one record, under
\* that id: Processing, with the broadcast's hash, the gas limit that
\* simulate_transaction gave and the gas price that fetch_gas_price gave,
\* which are also what the broadcast was sent with.
C21_SubmitHappyPath ==
    (call.kind = "single" /\ call.pc = "done" /\ ~stub /\ call.sends # <<>>) =>
        /\ call.res = "ok"
        /\ call.rows = <<[chainId |-> call.inp.chain_id, id |-> call.id]>>
        /\ Len(call.sends) = 1
        /\ \A i \in Ids \ {call.id} : call.store[i].status = "Absent"
        /\ call.store[call.id].status = "Processing"
        /\ call.store[call.id].hash = call.sends[1].hash
        /\ call.store[call.id].hash # NoHash
        /\ call.store[call.id].err = "none"
        /\ call.store[call.id].chain = parse_u64(call.inp.chain_id)
        /\ call.store[call.id].gas_limit =
              (IF call.inp.simDisabled THEN DefaultGasLimit ELSE GasEstimate)
        /\ call.store[call.id].gas_limit = call.sends[1].gas_limit
        /\ call.store[call.id].gas_price = call.gas_price
        /\ call.store[call.id].gas_price = call.sends[1].gas_price

\* A simulated call with chainId "01" and a gas price off the default has
\* been broadcast and has returned.
C21_Witness ==
    /\ call.kind = "single"
    /\ call.pc = "done"
    /\ call.res = "ok"
    /\ ~stub
    /\ ~call.inp.simDisabled
    /\ call.inp.chain_id = <<"0", "1">>
    /\ call.gas_price # DefaultGasPrice
    /\ call.store[call.id].status = "Processing"

\* C22: a single-chain call whose to, data, chainId and payment type are
\* given and parse answers with the error of the first step that fails, the
\* steps taken in the order chain support (InvalidParams), authorization
\* list (InvalidSignature), simulation (SimulationFailed), payment
\* validation (InvalidParams, UnsupportedPaymentToken, UnsupportedCapability).
C22_FirstFailingStep ==
    (/\ call.kind = "single"
     /\ call.pc = "done"
     /\ call.inp.to = "wallet"
     /\ call.inp.data # <<>>
     /\ call.inp.payment_type # ""
     /\ parse_u64(call.inp.chain_id) # ParseErr) =>
        LET chainOk == is_chain_supported(parse_u64(call.inp.chain_id))
            authOk == call.inp.authorization_list # "invalid"
            simOk == SimulateCalldata(call.inp.data, call.sim,
                                      call.inp.simDisabled, stub) # SimErr
        IN  /\ ~chainOk => call.res = "InvalidParams"
            /\ (chainOk /\ ~authOk) => call.res = "InvalidSignature"
            /\ (chainOk /\ authOk /\ call.sim # "none" /\ ~simOk)
                  => call.res = "SimulationFailed"
            /\ (chainOk /\ authOk /\ call.sim # "none" /\ simOk)
                  => \/ call.res = CheckPayment(call.inp, call.gas_price,
                                                call.sim_gas, call.balance)
                     \/ /\ CheckPayment(call.inp, call.gas_price,
                                         call.sim_gas, call.balance) = "ok"
                        /\ call.res = "InternalError"

\* C23: when a single-chain call with payment type erc20 comes to the
\* payment validation, a token that is no 20-byte hex address or is not in
\* supported_tokens() (letter case set aside) is turned down with
\* UnsupportedPaymentToken and nothing is persisted or broadcast, and a token
\* that is in supported_tokens() in whatever letter case passes.
C23_Erc20Token ==
    (/\ call.kind = "single"
     /\ call.pc = "done"
     /\ call.inp.payment_type = "erc20"
     /\ CheckRequest(call.inp) = "ok"
     /\ call.sim # "none"
     /\ call.res # "SimulationFailed") =>
        LET token == call.inp.token
            address == /\ Len(token) = Len(ZeroAddress)
                       /\ SubSeq(to_ascii_lowercase(token), 1, 2) = <<"0", "x">>
            listed == \E t \in get_supported_tokens :
                         to_ascii_lowercase(t) = to_ascii_lowercase(token)
        IN  /\ (~address \/ ~listed) =>
                  /\ call.res = "UnsupportedPaymentToken"
                  /\ \A i \in Ids : call.store[i].status = "Absent"
                  /\ call.sends = <<>>
            /\ listed => call.res \in {"ok", "InternalError"}

\* C24: a single-chain call with payment type sponsored that passes the
\* chain, authorization and simulation checks is accepted whatever its
\* payment token is, the empty token included: its record is created and its
\* broadcast is tried.
C24_SponsoredAnyToken ==
    (/\ call.kind = "single"
     /\ call.pc = "done"
     /\ call.inp.payment_type = "sponsored"
     /\ call.inp.to = "wallet"
     /\ Len(call.inp.data) >= Len(Selector)
     /\ SubSeq(call.inp.data, 1, Len(Selector)) = Selector
     /\ parse_u64(call.inp.chain_id) # ParseErr
     /\ is_chain_supported(parse_u64(call.inp.chain_id))
     /\ call.inp.authorization_list # "invalid"
     /\ call.res # "SimulationFailed") =>
        /\ call.res \in {"ok", "InternalError"}
        /\ call.id \in Ids
        /\ call.store[call.id].status # "Absent"

\* C25: when a single-chain call with native payment comes to the payment
\* validation, it passes only if its token is the zero address and the
\* wallet's balance is at least gas_price x gas_limit, the product taken
\* without wraparound; a smaller balance is answered with InvalidParams, a
\* product beyond 256 bits with InternalError, and in both cases nothing is
\* persisted or broadcast.
C25_NativeBalance ==
    (/\ call.kind = "single"
     /\ call.pc \in {"create", "send", "done"}
     /\ call.inp.payment_type = "native"
     /\ CheckRequest(call.inp) = "ok"
     /\ call.res # "SimulationFailed") =>
        LET required == call.gas_price * call.sim_gas
            passed == call.pc \in {"create", "send"} \/ call.id \in Ids
            nothingDone == /\ \A i \in Ids : call.store[i].status = "Absent"
                           /\ call.sends = <<>>
        IN  /\ passed => /\ call.inp.token = ZeroAddress
                         /\ call.balance # BalanceErr
                         /\ call.balance >= required
                         /\ required <= U256Max
            /\ (call.balance # BalanceErr /\ call.balance < required) =>
                  call.res = "InvalidParams" /\ nothingDone
            /\ (call.inp.token = ZeroAddress /\ required > U256Max) =>
                  call.res = "InternalError" /\ nothingDone

\* A native call whose wallet holds exactly gas_price x gas_limit has been
\* accepted and broadcast.
C25_Witness ==
    /\ call.kind = "single"
    /\ call.pc = "done"
    /\ call.res = "ok"
    /\ call.inp.payment_type = "native"
    /\ call.balance = call.gas_price * call.sim_gas
    /\ call.sends # <<>>

\* C26: in every configuration, a single-chain call whose calldata is shorter
\* than four bytes or does not start with the executeWithRelayer selector is
\* rejected by the Simulator: no record is created for it and nothing is
\* broadcast.
C26_SelectorChecked ==
    (/\ call.kind = "single"
     /\ \/ Len(call.inp.data) < Len(Selector)
        \/ SubSeq(call.inp.data, 1, Len(Selector)) # Selector) =>
        /\ \A i \in Ids : call.store[i].status = "Absent"
        /\ call.sends = <<>>

\* C27: relayer_getStatus answers with one row for each id of the request,
\* in the order of the request (no row for no id), and the row's status is
\* 400 for an id that does not parse, 404 for one the store does not hold,
\* 201 for a Pending or Processing request, 200 for a Completed and 500 for
\* a Failed one.
C27_StatusRows ==
    (call.kind = "store" /\ call.op.name = "status") =>
        /\ Len(call.op.rows) = Len(call.op.ids)
        /\ \A n \in 1..Len(call.op.ids) :
              LET id == call.op.ids[n]
                  key == [prefix |-> "request", id |-> parse_u64(id), hash |-> NoHash]
                  held == key \in DbKeys /\ call.db[key] # NoValue
              IN  /\ call.op.rows[n].id = id
                  /\ call.op.rows[n].status =
                       (IF \E k \in 1..Len(id) : id[k] \notin {"0", "1", "2", "9"}
                        THEN 400
                        ELSE IF ~held THEN 404
                        ELSE IF call.db[key].status.v \in {"Pending", "Processing"}
                             THEN 201
                        ELSE IF call.db[key].status.v = "Completed" THEN 200
                        ELSE 500)

\* A query for a Pending request, a Failed one and an unknown id, answered
\* 201, 500, 404.
C27_Witness ==
    /\ call.kind = "store"
    /\ call.op.name = "status"
    /\ Len(call.op.rows) = 3
    /\ call.op.rows[1].status = 201
    /\ call.op.rows[2].status = 500
    /\ call.op.rows[3].status = 404
    /\ call.db[[prefix |-> "request", id |-> 1, hash |-> NoHash]].status.v = "Pending"

\* C28: after any sequence of create_request and update_request_status
\* calls (and add_resubmission calls between them), the four counts of
\* get_request_count_by_status add up to get_total_request_count; on the
\* empty store both are 0.
C28_CountsAddUp ==
    call.kind = "store" =>
        /\ get_request_count_by_status(call.db, "Pending")
             + get_request_count_by_status(call.db, "Processing")
             + get_request_count_by_status(call.db, "Completed")
             + get_request_count_by_status(call.db, "Failed")
             = get_total_request_count(call.db)
        /\ get_total_request_count(call.db) =
              Cardinality({i \in Ids : get_request(call.db, i) # <<>>})
        /\ call.n = 0 => get_total_request_count(call.db) = 0

\* Two requests, one of them moved to Completed by an update, the other
\* Pending.
C28_Witness ==
    /\ call.kind = "store"
    /\ call.op.name = "update"
    /\ get_total_request_count(call.db) = 2
    /\ get_request_count_by_status(call.db, "Completed") = 1
    /\ get_request_count_by_status(call.db, "Pending") = 1

C30_SecondCall ==
    /\ call.kind = "store"
    /\ call.op.name = "update"
    /\ call.op.status = "Completed"
    /\ call.op.error_message = <<>>
    /\ get_request(call.db, call.op.id) # <<>>
    /\ call'.n = call.n + 1
    /\ call'.op.name = "update"
    /\ call'.op.id = call.op.id
    /\ call'.op.status = "Completed"
    /\ call'.op.error_message = <<>>

\* C30 as stated: the stored record after the second of two calls
\* update_request_status(id, Completed, None) equals the stored record after
\* the first.
C30_TwiceIsOnce ==
    [][C30_SecondCall =>
         get_request(call'.db, call.op.id) = get_request(call.db, call.op.id)]_vars

\* C30: the stored record after the second of two calls
\* update_request_status(id, Completed, None) equals the stored record after
\* the first in every field but updated_at, which the second call sets to the
\* time of that call, never an earlier one; no other key changes.
C30_TwiceIsOnceButStamp ==
    [][C30_SecondCall =>
         LET first == get_request(call.db, call.op.id)[1]
             second == get_request(call'.db, call.op.id)[1]
         IN  /\ get_request(call'.db, call.op.id) # <<>>
             /\ second = [first EXCEPT !.updated_at = call'.now]
             /\ second.updated_at >= first.updated_at
             /\ second.created_at <= second.updated_at
             /\ \A k \in DbKeys \ {[prefix |-> "request", id |-> call.op.id, hash |-> NoHash]} :
                   call'.db[k] = call.db[k]]_vars

\* The third call is the second update_request_status(id, Completed, None) of
\* a record created by the first call: it read the Completed record the
\* first update left (updated_at is later than creation can make it, hash and
\* nonce are as created), and wrote it back with a later updated_at.
C30_Witness ==
    /\ call.kind = "store"
    /\ call.n = 3
    /\ call.op.name = "update"
    /\ call.op.status = "Completed"
    /\ call.op.error_message = <<>>
    /\ call.op.read # <<>>
    /\ call.op.read[1].status = "Completed"
    /\ call.op.read[1].error_message = <<>>
    /\ call.op.read[1].transaction_hash = <<>>
    /\ call.op.read[1].nonce = 0
    /\ call.op.read[1].updated_at > call.op.read[1].created_at + 1
    /\ get_request(call.db, call.op.id)[1].updated_at > call.op.read[1].updated_at
    /\ get_request(call.db, call.op.id)[1].status = "Completed"

\* C31: a call of update_request_status, update_request_tx_hash or
\* update_request_nonce whose id has no record leaves every key of the store
\* as it was, and there is still no record for that id (no RocksDB failure:
\* get_request answers Ok(None) and the call returns Ok).
C31_AbsentIdIsNoOp ==
    [][(/\ call.kind = "store"
        /\ call'.n = call.n + 1
        /\ call'.op.name \in {"update", "hash", "nonce"}
        /\ get_request(call.db, call'.op.id) = <<>>) =>
          /\ call'.op.read = <<>>
          /\ call'.db = call.db
          /\ get_request(call'.db, call'.op.id) = <<>>
          /\ get_total_request_count(call'.db) = get_total_request_count(call.db)]_vars

\* update_request_tx_hash has been called for an id without a record, in a
\* store that holds a record of another id and a resubmission entry of the
\* id itself.
C31_Witness ==
    /\ call.kind = "store"
    /\ call.n = 3
    /\ call.op.name = "hash"
    /\ call.op.read = <<>>
    /\ get_request(call.db, call.op.id) = <<>>
    /\ get_total_request_count(call.db) = 1
    /\ get_resubmissions(call.db, call.op.id) # <<>>

\* C32: every request: key holds one record, the record of the key's id, with
\* a status among Pending, Processing, Completed, Failed and with
\* created_at <= updated_at; and a mutator call that finds the record leaves
\* created_at as it was and sets updated_at to the time of the call (the
\* clock does not go back).
C32_RecordWellFormed ==
    /\ [](call.kind = "store" =>
            \A i \in Ids :
               /\ Cardinality({k \in DbKeys : /\ k.prefix = "request"
                                              /\ call.db[k] # NoValue
                                              /\ from_slice(call.db[k]).id = i}) <= 1
               /\ get_request(call.db, i) # <<>> =>
                    /\ get_request(call.db, i)[1].id = i
                    /\ get_request(call.db, i)[1].status \in Statuses
                    /\ get_request(call.db, i)[1].created_at
                         <= get_request(call.db, i)[1].updated_at)
    /\ [][(/\ call.kind = "store"
           /\ call'.n = call.n + 1
           /\ call'.op.name \in {"update", "hash", "nonce"}
           /\ get_request(call.db, call'.op.id) # <<>>) =>
             LET old == get_request(call.db, call'.op.id)[1]
                 new == get_request(call'.db, call'.op.id)[1]
             IN  /\ get_request(call'.db, call'.op.id) # <<>>
                 /\ new.created_at = old.created_at
                 /\ new.updated_at = call'.now
                 /\ new.updated_at >= old.updated_at]_vars

\* update_request_nonce has rewritten a record created two clock readings
\* earlier: created_at is as read, updated_at is the time of the call.
C32_Witness ==
    /\ call.kind = "store"
    /\ call.op.name = "nonce"
    /\ call.op.read # <<>>
    /\ get_request(call.db, call.op.id)[1].nonce = 7
    /\ get_request(call.db, call.op.id)[1].created_at = call.op.read[1].created_at
    /\ call.op.read[1].updated_at = call.op.read[1].created_at + 1
    /\ get_request(call.db, call.op.id)[1].updated_at = call.op.read[1].updated_at + 1

\* C33: for the zero address as token the Pricer answers with a success
\* item, whatever the chainId and whatever the chain answers; when the gas
\* price cannot be read the item carries the 20 Gwei default.
C33_NativeAlwaysSucceeds ==
    (/\ call.kind = "price"
     /\ call.pc = "done"
     /\ to_ascii_lowercase(call.inp.token) = ZeroAddress) =>
        /\ call.item.kind = "success"
        /\ call.item.gas_price \in Prices \cup {DefaultGasPrice}
        /\ ~is_chain_supported(parse_u64(call.inp.chain_id)) =>
              call.item.gas_price = DefaultGasPrice

\* C34: with stub mode off, for a token other than the zero address the
\* Pricer answers with an error item whenever the chain has no nativeUsd
\* feed or chain and token have no tokenUsd feed (a chainId that does not
\* parse has no feed of either kind).
C34_NoFeedIsErrorItem ==
    (/\ call.kind = "price"
     /\ call.pc = "done"
     /\ ~stub
     /\ to_ascii_lowercase(call.inp.token) # ZeroAddress
     /\ \/ parse_u64(call.inp.chain_id) = ParseErr
        \/ chainlink_native_usd(call.inp, parse_u64(call.inp.chain_id)) = <<>>
        \/ chainlink_token_usd(call.inp, parse_u64(call.inp.chain_id),
                               call.inp.token) = <<>>) =>
        /\ call.item.kind = "error"
        /\ call.item.message \in {"invalid chainId",
                                  "oracle feed not configured for chain/token"}

\* A token that has a tokenUsd feed on chain 1, asked for on chain 1, which
\* has no nativeUsd feed, with oracle answers that would give a rate: the
\* answer is the error item.
C34_Witness ==
    /\ call.kind = "price"
    /\ call.pc = "done"
    /\ ~stub
    /\ call.inp.token = <<"0", "x", "a", "A">>
    /\ call.inp.chain_id = <<"0", "1">>
    /\ chainlink_token_usd(call.inp, 1, call.inp.token) # <<>>
    /\ chainlink_native_usd(call.inp, 1) = <<>>
    /\ call.inp.native_px = <<5>>
    /\ call.inp.token_px = <<5>>
    /\ call.item.kind = "error"

\* C35: a multichain call with an empty transactions list is answered
\* InvalidParams, whatever its payment type, token and paymentChainId, and
\* it creates no record, broadcasts nothing and returns no row.
C35_EmptyBatchRejected ==
    (/\ call.kind = "multi"
     /\ call.inp.transactions = <<>>) =>
        /\ call.res \in {"none", "InvalidParams"}
        /\ call.k = 0
        /\ call.recs = <<>>
        /\ call.sends = <<>>
        /\ call.rows = <<>>
        /\ \A i \in Ids : store[i] = Absent

\* An empty batch with a payment type that is none of the three and a
\* paymentChainId that is not supported has been answered InvalidParams.
C35_Witness ==
    /\ call.kind = "multi"
    /\ call.inp.transactions = <<>>
    /\ call.inp.payType = "other"
    /\ ~call.inp.payChainOk
    /\ call.inp.token = "malformed"
    /\ call.res = "InvalidParams"

\* C36: of the transactions broadcast for one request, the first and the
\* resubmissions, at most one is ever mined.
C36_MinedOncePerRequest ==
    \A x, y \in Hashes :
        (/\ x # y
         /\ txs[x].id # 0
         /\ txs[x].id = txs[y].id
         /\ txs[x].st \in {"success", "reverted"}) =>
            txs[y].st \notin {"success", "reverted"}

\* C37: a request that is Failed has no successfully mined transaction
\* among the transactions broadcast for it, when it is marked Failed and at
\* any later time.
C37_FailedNeverMined ==
    \A i \in Ids :
        store[i].status = "Failed" =>
            \A x \in Hashes : txs[x].id = i => txs[x].st # "success"

\* C38: the monitor goes on to the resubmission of a record only when the
\* chain has no receipt for the record's hash; with a receipt there, a
\* lookup that fails sends it nowhere but to the next record (stub mode off).
C38_ResubmitOnlyWithoutReceipt ==
    [][(/\ ~stub
        /\ mon.pc = "receipt"
        /\ mon'.pc = "send") =>
          txs[Head(mon.queue).hash].st \notin {"success", "reverted"}]_vars

\* C39: a tick takes up no record of its snapshot that is Completed or
\* Failed and none without a transaction_hash; whatever the monitor then
\* writes, looks up or broadcasts is for the record at the head of what the
\* tick took up, so the records it passed over get no store write, no chain
\* call and no broadcast from it.
C39_TickSkipsTerminalAndHashless ==
    [][MonitorStep =>
         /\ mon.pc = "sleep" =>
               \A k \in 1..Len(mon'.queue) :
                  /\ store[mon'.queue[k].id].status \in {"Pending", "Processing"}
                  /\ store[mon'.queue[k].id].hash # NoHash
                  /\ mon'.queue[k].hash = store[mon'.queue[k].id].hash
         /\ mon.pc = "sleep" => (store' = store /\ txs' = txs /\ resubs' = resubs)
         /\ mon.pc # "sleep" =>
               /\ mon.queue # <<>>
               /\ mon'.queue \in {mon.queue, Tail(mon.queue)}
               /\ \A i \in Ids \ {Head(mon.queue).id} : store'[i] = store[i]
               /\ \A x \in Hashes : txs'[x] # txs[x] => txs'[x].id = Head(mon.queue).id
               /\ \A e \in resubs' \ resubs : e[1] = Head(mon.queue).id]_vars

\* The monitor sleeps over a store whose snapshot is a Failed record with a
\* hash, beside a Pending record without one: the tick from here takes up
\* nothing.
C39_Witness ==
    /\ ~stub
    /\ mon.pc = "sleep"
    /\ mon.queue = <<>>
    /\ store[1].status = "Failed"
    /\ store[1].hash # NoHash
    /\ store[2].status = "Pending"
    /\ store[2].hash = NoHash
    /\ get_requests(SnapshotLimit) = {1}
    /\ Snapshot = <<>>

\* C40: for every id, get_resubmissions(id) returns the entries appended for
\* that id and no others, in the order in which they were appended, and
\* relayer_getStatus reports them in that order.
C40_ResubmissionsInAppendOrder ==
    call.kind = "store" =>
        /\ \A i \in Ids :
              LET of_i(e) == e.id = i
                  mine == SelectSeq(call.appended, of_i)
                  got == get_resubmissions(call.db, i)
              IN  [k \in 1..Len(got) |-> got[k].transaction_hash]
                    = [k \in 1..Len(mine) |-> mine[k].hash]
        /\ call.op.name = "status" =>
              \A n \in 1..Len(call.op.rows) :
                 call.op.rows[n].status \in {200, 201, 500} =>
                    call.op.rows[n].resubmissions
                      = get_resubmissions(call.db, parse_u64(call.op.ids[n]))

====
